---- MODULE Spec2Model ----
(***************************************************************************)
(* A model of the naja crawler (naja/crawler.py) on the asyncio event      *)
(* loop.  Coroutines run one at a time and give up the processor only at   *)
(* an await that really suspends: `running` names the coroutine that holds *)
(* the processor, empty when the loop is free to resume any ready one.     *)
(* The HTTP client, the robots policy of a domain, the link extractor and  *)
(* the rate limiter are the environment: their answers are drawn from      *)
(* small sets.                                                             *)
(***************************************************************************)
EXTENDS Integers, Sequences, FiniteSets, TLC

\* ------------------------------------------------------------------ bounds
MaxLimit == 3
MaxWorkers == 2
MaxSiteMaps == 1
MaxSubTasks == 4
MaxStops == 1
MaxRuns == 2
MaxCalls == 3
MaxConfigures == 2
StopLimit == 1
MaxFilters == 3
MaxKwargCalls == 1
MaxParserCalls == 1

\* ------------------------------------------------------------- URL model
NoUrl == [scheme |-> "", domain |-> "", path |-> "", params |-> "",
          query |-> "", fragment |-> ""]

ParsedUrl(scheme, domain, path) ==
    [scheme |-> scheme, domain |-> domain, path |-> path, params |-> "",
     query |-> "", fragment |-> ""]

\* urllib.parse.urlunparse on the six components
raw(url) ==
    url.scheme \o "://" \o url.domain \o url.path
      \o (IF url.params = "" THEN "" ELSE ";" \o url.params)
      \o (IF url.query = "" THEN "" ELSE "?" \o url.query)
      \o (IF url.fragment = "" THEN "" ELSE "#" \o url.fragment)

Urls == {ParsedUrl("https", "a.com", "/1"), ParsedUrl("https", "a.com", "/2"),
         ParsedUrl("https", "b.com", "/1")}

Domains == {u.domain : u \in Urls}

\* urllib.parse.urlparse, on the strings the model's pages can hold
parse_url(s) == CHOOSE u \in Urls : raw(u) = s

\* what a robots policy object answers for one domain
Policies == [site_maps : 0..MaxSiteMaps, can_fetch : BOOLEAN]

\* the start URLs a crawler may be given
SeedChoices == {{}, {"https://a.com/1"}, {"https://a.com/1", "https://a.com/2"},
                {"https://a.com/1", "https://b.com/1"}}

\* the page limits a crawler may be given
LimitChoices == {0, MaxLimit}

\* the links a fetched page may hold, and the URLs a sitemap may list
PageLinkSets == {{}, {ParsedUrl("https", "b.com", "/1")}}
SiteMapLinkSets == {{}, {ParsedUrl("https", "a.com", "/2")},
                    {ParsedUrl("https", "b.com", "/1")}}

\* the filters a crawler may be given: each is the set of URLs it accepts
FilterChoices == {<<>>, <<{u \in Urls : u.domain = "a.com"}>>,
                  <<Urls, {u \in Urls : u.domain = "b.com"}>>}

\* ------------------------------------------------------------------ state
VARIABLES
    start_urls,            \* Crawler._start_urls
    limit,                 \* Crawler._limit
    num_workers,           \* Crawler._num_workers
    filters,               \* Crawler._filters
    site_map_links,        \* environment: the URLs the sitemaps list
    urls_seen,             \* Crawler._urls_seen
    done,                  \* Crawler._done (raw strings)
    total_pages,           \* Crawler._total_pages
    todo,                  \* Crawler._todo: queued task ids, FIFO
    unfinished,            \* Queue._unfinished_tasks of _todo
    acknowledged_domains,  \* UserAgent._acknowledged_domains
    configured,            \* domains handed to rate_limiter.configure
    coros,                 \* coroutine 0 is run(); i >= 1 are asyncio tasks
    workers,               \* Crawler._workers (<<>> until run creates them)
    running,               \* {id} of the coroutine or worker that runs, or {}
    events,                \* what was emitted: <<event name, url>>
    enqueued,              \* history: how often each URL was put on _todo
    stops,                 \* history: the reset flag of every stop() call
    run_calls,             \* history: the next task id at every run() call
    limiter,               \* a rate limiter object that is called on its own
    calls,                 \* history: the calls made on one object on its own
    objs,                  \* the filter objects built so far, by number
    shared,                \* the class attributes of naja.filterers
    clock                  \* time in ticks, for the limiters that measure it

vars == <<start_urls, limit, num_workers, filters, site_map_links, urls_seen, done,
          total_pages, todo, unfinished, acknowledged_domains, configured,
          coros, workers, running, events, enqueued, stops, run_calls, limiter,
          calls, objs, shared, clock>>

config == <<start_urls, limit, num_workers, filters, site_map_links>>

\* the objects that the unit-level behaviours call on their own, and the
\* clock they read
unit == <<limiter, calls, objs, shared, clock>>

\* UrlFilterer.filters (filterers/__init__.py line 25) and Filter._chained
\* (filterers/filters.py line 62) as they are when the package is imported
ClassAttributes == [filters |-> {}, chained |-> <<>>]

\* a coroutine frame: where it is in _crawl/_on_found_links/_acknowledge_domains;
\* `by` is history: the coroutine that created a sitemap task, and the domain
\* whose sitemap it reads
Frame(kind, pc, url, arg) ==
    [kind |-> kind, pc |-> pc, url |-> url, arg |-> arg, new |-> {},
     rest |-> {}, cur |-> NoUrl, maps |-> 0, kids |-> {}, put |-> {},
     cancel |-> FALSE, by |-> <<>>]

WorkerId(j) == 100 + j

Finished(c) == coros[c].pc \in {"done", "failed", "cancelled"}

\* Crawler.__init__, for a crawler and an environment drawn from the given sets
CrawlerInit(seeds, limits, pools, filterers, sitemaps) ==
    /\ start_urls \in seeds
    /\ limit \in limits
    /\ num_workers \in pools
    /\ filters \in filterers
    /\ site_map_links \in sitemaps
    /\ urls_seen = {}
    /\ done = {}
    /\ total_pages = 0
    /\ todo = <<>>
    /\ unfinished = 0
    /\ acknowledged_domains = <<>>
    /\ configured = {}
    /\ coros = (0 :> Frame("run", "created", NoUrl, {}))
    /\ workers = <<>>
    /\ running = {}
    /\ events = {}
    /\ enqueued = [u \in Urls |-> 0]
    /\ stops = <<>>
    /\ run_calls = <<>>
    /\ clock = 0

\* the crawler, with no object of it called on its own
Construct(seeds, limits, pools, filterers, sitemaps) ==
    /\ CrawlerInit(seeds, limits, pools, filterers, sitemaps)
    /\ limiter = [kind |-> "none"]
    /\ calls = <<>>
    /\ objs = <<>>
    /\ shared = ClassAttributes

Init ==
    \/ Construct(SeedChoices, LimitChoices, {1}, FilterChoices, SiteMapLinkSets)
    \/ Construct(SeedChoices, LimitChoices, 2..MaxWorkers, {<<>>}, {{}})

\* ------------------------------------------------------- shared helpers
\* Crawler._emit_event for every URL of a set
Emit(name, urlset) == events \cup {<<name, u>> : u \in urlset}

\* an agent that replaces the policy of a domain at every call
respect_again(domain, policy) ==
    [d \in DOMAIN acknowledged_domains \cup {domain} |->
       IF d = domain THEN policy ELSE acknowledged_domains[d]]

\* UserAgent.respect: the policy of a known domain is kept
respect(domain, policy) ==
    IF domain \in DOMAIN acknowledged_domains
    THEN acknowledged_domains
    ELSE acknowledged_domains @@ (domain :> policy)

\* UserAgent.get_site_maps: the number of sitemaps the policy lists
get_site_maps(agent, domain) ==
    IF domain \notin DOMAIN agent THEN 0 ELSE agent[domain].site_maps

\* an agent that lets every URL through
can_access_anything(domain) == TRUE

\* UserAgent.can_access
can_access(domain) == acknowledged_domains[domain].can_fetch

\* a crawler that keeps every link, whatever its filters say
apply_no_filter(url) == TRUE

\* Crawler._apply_filters
apply_filters(url) == \A i \in 1..Len(filters) : url \in filters[i]

\* an exception leaves coroutine c: run() raises, a task stores it
Raised(c) ==
    [coros EXCEPT ![c].pc = IF coros[c].kind = "run" THEN "raised" ELSE "failed"]

SubTasks == {i \in DOMAIN coros : coros[i].kind = "sitemap"}

NextId == Cardinality(DOMAIN coros)

\* ---------------------------------------------------------------- run()
\* run, line 78: _on_found_links on the parsed start URLs, up to the
\* set difference at the head of _acknowledge_domains
RunStart ==
    /\ running = {}
    /\ coros[0].pc = "created"
    /\ LET urls == {parse_url(s) : s \in start_urls} IN
       /\ events' = Emit("url_found", urls)
       /\ coros' = [coros EXCEPT ![0].pc = "ack_loop", ![0].arg = urls,
                                 ![0].new = urls \ urls_seen,
                                 ![0].rest = urls \ urls_seen]
    /\ running' = {0}
    /\ run_calls' = Append(run_calls, NextId)
    /\ UNCHANGED <<config, urls_seen, done, total_pages, todo, unfinished,
                   acknowledged_domains, configured, workers, enqueued, stops, unit>>

\* ------------------------------------------------- _acknowledge_domains
\* loop head: take the next new URL, respect its domain, read its sitemaps
AckNext(c) ==
    /\ running = {c}
    /\ coros[c].pc = "ack_loop"
    /\ \E result \in coros[c].rest, policy \in Policies :
         LET agent == respect(result.domain, policy) IN
         /\ acknowledged_domains' = agent
         /\ coros' = [coros EXCEPT ![c].cur = result,
                                   ![c].rest = @ \ {result},
                                   ![c].maps = get_site_maps(agent, result.domain),
                                   ![c].kids = {},
                                   ![c].pc = "ack_maps"]
    /\ UNCHANGED <<config, urls_seen, done, total_pages, todo, unfinished,
                   configured, workers, running, events, enqueued, stops, run_calls, unit>>

\* parse_site_map: the request for the next sitemap is sent, c suspends
AckFetch(c) ==
    /\ running = {c}
    /\ coros[c].pc = "ack_maps"
    /\ coros[c].maps > 0
    /\ coros' = [coros EXCEPT ![c].pc = "ack_fetch"]
    /\ running' = {}
    /\ UNCHANGED <<config, urls_seen, done, total_pages, todo, unfinished,
                   acknowledged_domains, configured, workers, events,
                   enqueued, stops, run_calls, unit>>

\* the sitemap arrives: its links go to a new _acknowledge_domains task
AckFetched(c) ==
    /\ running = {}
    /\ coros[c].pc = "ack_fetch"
    /\ ~coros[c].cancel
    /\ Cardinality(SubTasks) < MaxSubTasks
    /\ coros' = [coros EXCEPT ![c].kids = @ \cup {NextId},
                              ![c].maps = @ - 1,
                              ![c].pc = "ack_maps"]
                @@ (NextId :> [Frame("sitemap", "created", NoUrl, site_map_links)
                                 EXCEPT !.by = <<c, coros[c].cur.domain>>])
    /\ running' = {c}
    /\ UNCHANGED <<config, urls_seen, done, total_pages, todo, unfinished,
                   acknowledged_domains, configured, workers, events,
                   enqueued, stops, run_calls, unit>>

\* the sitemap request or its parsing fails: the error leaves c
AckFetchError(c) ==
    /\ running = {}
    /\ coros[c].pc = "ack_fetch"
    /\ ~coros[c].cancel
    /\ coros' = Raised(c)
    /\ UNCHANGED <<config, urls_seen, done, total_pages, todo, unfinished,
                   acknowledged_domains, configured, workers, running, events,
                   enqueued, stops, run_calls, unit>>

\* asyncio.wait(tasks): ValueError on an empty list, else c suspends
AckWait(c) ==
    /\ running = {c}
    /\ coros[c].pc = "ack_maps"
    /\ coros[c].maps = 0
    /\ IF coros[c].kids = {}
       THEN coros' = Raised(c)
       ELSE coros' = [coros EXCEPT ![c].pc = "ack_wait"]
    /\ running' = {}
    /\ UNCHANGED <<config, urls_seen, done, total_pages, todo, unfinished,
                   acknowledged_domains, configured, workers, events,
                   enqueued, stops, run_calls, unit>>

\* a parent that goes on as soon as it is resumed, whatever its tasks do
AckWaitedNoBarrier(c) ==
    /\ running = {}
    /\ coros[c].pc = "ack_wait"
    /\ ~coros[c].cancel
    /\ configured' = configured \cup {coros[c].cur.domain}
    /\ coros' = [coros EXCEPT ![c].pc = "ack_loop"]
    /\ running' = {c}
    /\ UNCHANGED <<config, urls_seen, done, total_pages, todo, unfinished,
                   acknowledged_domains, workers, events, enqueued, stops, run_calls, unit>>

\* every sitemap task is over: rate_limiter.configure for the domain
AckWaited(c) ==
    /\ running = {}
    /\ coros[c].pc = "ack_wait"
    /\ ~coros[c].cancel
    /\ \A k \in coros[c].kids : Finished(k)
    /\ configured' = configured \cup {coros[c].cur.domain}
    /\ coros' = [coros EXCEPT ![c].pc = "ack_loop"]
    /\ running' = {c}
    /\ UNCHANGED <<config, urls_seen, done, total_pages, todo, unfinished,
                   acknowledged_domains, workers, events, enqueued, stops, run_calls, unit>>

\* after the loop: _urls_seen.update(new); return new
AckReturn(c) ==
    /\ running = {c}
    /\ coros[c].pc = "ack_loop"
    /\ coros[c].rest = {}
    /\ urls_seen' = urls_seen \cup coros[c].new
    /\ IF coros[c].kind = "sitemap"
       THEN /\ coros' = [coros EXCEPT ![c].pc = "done"]
            /\ running' = {}
       ELSE /\ coros' = [coros EXCEPT ![c].pc = "put", ![c].put = coros[c].new]
            /\ running' = {c}
    /\ UNCHANGED <<config, done, total_pages, todo, unfinished,
                   acknowledged_domains, configured, workers, events,
                   enqueued, stops, run_calls, unit>>

\* a sitemap task starts: parsed_urls - _urls_seen
SubStart(c) ==
    /\ running = {}
    /\ coros[c].kind = "sitemap"
    /\ coros[c].pc = "created"
    /\ coros' = [coros EXCEPT ![c].pc = "ack_loop",
                              ![c].new = coros[c].arg \ urls_seen,
                              ![c].rest = coros[c].arg \ urls_seen]
    /\ running' = {c}
    /\ UNCHANGED <<config, urls_seen, done, total_pages, todo, unfinished,
                   acknowledged_domains, configured, workers, events,
                   enqueued, stops, run_calls, unit>>

\* ------------------------------------------------------------- _put_todo
\* a cap that lets nothing through once the limit is reached
over_limit_early(pages) == pages >= limit

\* _put_todo, line 218: the page limit test
over_limit(pages) == pages > limit

\* _on_found_links, line 214-215: one _put_todo of the loop over new
PutTodo(c) ==
    /\ running = {c}
    /\ coros[c].pc = "put"
    /\ \E url \in coros[c].put :
         IF over_limit(total_pages)
         THEN /\ coros' = [coros EXCEPT ![c].put = @ \ {url}]
              /\ UNCHANGED <<total_pages, todo, unfinished, enqueued>>
         ELSE /\ total_pages' = total_pages + 1
              /\ coros' = [coros EXCEPT ![c].put = @ \ {url}]
                          @@ (NextId :> Frame("crawl", "created", url, {}))
              /\ todo' = Append(todo, NextId)
              /\ unfinished' = unfinished + 1
              /\ enqueued' = [enqueued EXCEPT ![url] = @ + 1]
    /\ UNCHANGED <<config, urls_seen, done, acknowledged_domains, configured,
                   workers, running, events, stops, run_calls, unit>>

\* ---------------------------------------------------------------- _crawl
\* a crawl task starts and suspends in rate_limiter.limit (line 101)
CrawlStart(c) ==
    /\ running = {}
    /\ coros[c].kind = "crawl"
    /\ coros[c].pc = "created"
    /\ ~coros[c].cancel
    /\ coros' = [coros EXCEPT ![c].pc = "limit"]
    /\ UNCHANGED <<config, urls_seen, done, total_pages, todo, unfinished,
                   acknowledged_domains, configured, workers, running, events,
                   enqueued, stops, run_calls, unit>>

\* the limiter lets the task go on: can_access, then either the request is
\* sent (lines 104, 117-122) or the URL is marked done (lines 114-115)
CrawlLimited(c) ==
    /\ running = {}
    /\ coros[c].pc = "limit"
    /\ ~coros[c].cancel
    /\ IF can_access(coros[c].url.domain)
       THEN /\ events' = Emit("request", {coros[c].url})
            /\ coros' = [coros EXCEPT ![c].pc = "send"]
            /\ UNCHANGED done
       ELSE /\ done' = done \cup {raw(coros[c].url)}
            /\ events' = Emit("done", {coros[c].url})
            /\ coros' = [coros EXCEPT ![c].pc = "done"]
    /\ UNCHANGED <<config, urls_seen, total_pages, todo, unfinished,
                   acknowledged_domains, configured, workers, running,
                   enqueued, stops, run_calls, unit>>

\* the response arrives: RESPONSE, _parse_links with the filters, and
\* _on_found_links up to the set difference of _acknowledge_domains
CrawlResponse(c) ==
    /\ running = {}
    /\ coros[c].pc = "send"
    /\ ~coros[c].cancel
    /\ \E links \in PageLinkSets :
         LET found == {link \in links : apply_filters(link)} IN
         /\ events' = Emit("url_found", found)
                        \cup {<<"response", coros[c].url>>}
         /\ coros' = [coros EXCEPT ![c].pc = "ack_loop", ![c].arg = found,
                                   ![c].new = found \ urls_seen,
                                   ![c].rest = found \ urls_seen]
    /\ running' = {c}
    /\ UNCHANGED <<config, urls_seen, done, total_pages, todo, unfinished,
                   acknowledged_domains, configured, workers, enqueued, stops, run_calls, unit>>

\* client.send raises: the error leaves _crawl
CrawlFetchError(c) ==
    /\ running = {}
    /\ coros[c].pc = "send"
    /\ ~coros[c].cancel
    /\ coros' = Raised(c)
    /\ UNCHANGED <<config, urls_seen, done, total_pages, todo, unfinished,
                   acknowledged_domains, configured, workers, running, events,
                   enqueued, stops, run_calls, unit>>

\* _on_found_links returned: lines 114-115
CrawlDone(c) ==
    /\ running = {c}
    /\ coros[c].kind = "crawl"
    /\ coros[c].pc = "put"
    /\ coros[c].put = {}
    /\ done' = done \cup {raw(coros[c].url)}
    /\ events' = Emit("done", {coros[c].url})
    /\ coros' = [coros EXCEPT ![c].pc = "done"]
    /\ running' = {}
    /\ UNCHANGED <<config, urls_seen, total_pages, todo, unfinished,
                   acknowledged_domains, configured, workers, enqueued, stops, run_calls, unit>>

\* CancelledError is thrown into a suspended task that was cancelled
Cancelled(c) ==
    /\ running = {}
    /\ coros[c].cancel
    /\ ~Finished(c)
    /\ coros' = [coros EXCEPT ![c].pc = "cancelled"]
    /\ UNCHANGED <<config, urls_seen, done, total_pages, todo, unfinished,
                   acknowledged_domains, configured, workers, running, events,
                   enqueued, stops, run_calls, unit>>

\* --------------------------------------------------------------- workers
WorkerOver(w) == w.pc \in {"returned", "crashed"}

\* a loop over the workers that cancels none of them
CancelNoWorker(ws) == ws

\* Task.cancel() on every worker: a worker awaiting a task passes it on
CancelWorkers(ws) ==
    [j \in DOMAIN ws |->
       IF WorkerOver(ws[j]) THEN ws[j] ELSE [ws[j] EXCEPT !.cancel = TRUE]]

CancelAwaited(ws, cs) ==
    [c \in DOMAIN cs |->
       IF /\ \E j \in DOMAIN ws : ws[j].pc = "await" /\ ws[j].task = c
          /\ cs[c].pc \notin {"done", "failed", "cancelled"}
       THEN [cs[c] EXCEPT !.cancel = TRUE]
       ELSE cs[c]]

\* _process_one, line 96: the worker takes a task or suspends in get()
WorkerGet(j) ==
    /\ \/ workers[j].pc = "new" /\ running = {}
       \/ workers[j].pc = "get" /\ running = {WorkerId(j)}
       \/ workers[j].pc = "idle" /\ running = {} /\ todo # <<>>
    /\ ~workers[j].cancel
    /\ IF todo = <<>>
       THEN /\ workers' = [workers EXCEPT ![j].pc = "idle"]
            /\ running' = {}
            /\ UNCHANGED todo
       ELSE /\ workers' = [workers EXCEPT ![j].pc = "got", ![j].task = Head(todo)]
            /\ todo' = Tail(todo)
            /\ running' = {WorkerId(j)}
    /\ UNCHANGED <<config, urls_seen, done, total_pages, unfinished,
                   acknowledged_domains, configured, coros, events, enqueued,
                   stops, run_calls, unit>>

\* _process_one, line 97: await task, suspending while it is not over
WorkerAwait(j) ==
    /\ running = {WorkerId(j)}
    /\ workers[j].pc = "got"
    /\ ~Finished(workers[j].task)
    /\ workers' = [workers EXCEPT ![j].pc = "await"]
    /\ running' = {}
    /\ UNCHANGED <<config, urls_seen, done, total_pages, todo, unfinished,
                   acknowledged_domains, configured, coros, events, enqueued,
                   stops, run_calls, unit>>

\* a worker that calls task_done() without awaiting the task it took
WorkerResumeEarly(j) ==
    /\ workers[j].pc = "got" /\ running = {WorkerId(j)}
    /\ workers' = [workers EXCEPT ![j].pc = "get"]
    /\ running' = {WorkerId(j)}
    /\ unfinished' = unfinished - 1
    /\ coros' = IF unfinished = 1 /\ coros[0].pc = "join"
                THEN [coros EXCEPT ![0].pc = "joined"]
                ELSE coros
    /\ UNCHANGED <<config, urls_seen, done, total_pages, todo,
                   acknowledged_domains, configured, events, enqueued, stops, run_calls, unit>>

\* the awaited task is over: task_done() (line 98) after a result, the
\* worker ends on CancelledError (line 92) and dies on any other error
WorkerResume(j) ==
    /\ \/ workers[j].pc = "got" /\ running = {WorkerId(j)}
       \/ workers[j].pc = "await" /\ running = {}
    /\ Finished(workers[j].task)
    /\ IF workers[j].cancel \/ coros[workers[j].task].pc = "cancelled"
       THEN /\ workers' = [workers EXCEPT ![j].pc = "returned"]
            /\ running' = {}
            /\ UNCHANGED <<unfinished, coros>>
       ELSE IF coros[workers[j].task].pc = "failed"
       THEN /\ workers' = [workers EXCEPT ![j].pc = "crashed"]
            /\ running' = {}
            /\ UNCHANGED <<unfinished, coros>>
       ELSE /\ workers' = [workers EXCEPT ![j].pc = "get"]
            /\ running' = {WorkerId(j)}
            /\ unfinished' = unfinished - 1
            /\ coros' = IF unfinished = 1 /\ coros[0].pc = "join"
                        THEN [coros EXCEPT ![0].pc = "joined"]
                        ELSE coros
    /\ UNCHANGED <<config, urls_seen, done, total_pages, todo,
                   acknowledged_domains, configured, events, enqueued, stops, run_calls, unit>>

\* a cancelled worker that has not started or waits in get() ends
WorkerCancelled(j) ==
    /\ running = {}
    /\ workers[j].cancel
    /\ workers[j].pc \in {"new", "idle"}
    /\ workers' = [workers EXCEPT ![j].pc = "returned"]
    /\ UNCHANGED <<config, urls_seen, done, total_pages, todo, unfinished,
                   acknowledged_domains, configured, coros, running, events,
                   enqueued, stops, run_calls, unit>>

\* ------------------------------------------------------- run(), the rest
NewWorkers == [j \in 1..num_workers |-> [pc |-> "new", task |-> 0, cancel |-> FALSE]]

\* run, lines 80-86: the workers are created; join() returns at once when
\* nothing is unfinished, and then they are cancelled right away
RunJoin ==
    /\ running = {0}
    /\ coros[0].pc = "put"
    /\ coros[0].put = {}
    /\ IF unfinished = 0
       THEN /\ workers' = CancelWorkers(NewWorkers)
            /\ coros' = [coros EXCEPT ![0].pc = "returned"]
       ELSE /\ workers' = NewWorkers
            /\ coros' = [coros EXCEPT ![0].pc = "join"]
    /\ running' = {}
    /\ UNCHANGED <<config, urls_seen, done, total_pages, todo, unfinished,
                   acknowledged_domains, configured, events, enqueued, stops, run_calls, unit>>

\* run, lines 85-86: join() has returned, the workers are cancelled
RunJoined ==
    /\ running = {}
    /\ coros[0].pc = "joined"
    /\ workers' = CancelWorkers(workers)
    /\ coros' = [CancelAwaited(workers, coros) EXCEPT ![0].pc = "returned"]
    /\ UNCHANGED <<config, urls_seen, done, total_pages, todo, unfinished,
                   acknowledged_domains, configured, running, events, enqueued,
                   stops, run_calls, unit>>

\* ------------------------------------------------------- stop and reset
\* stop(reset): AttributeError while run() has not created _workers
Stop(reset) ==
    /\ running = {}
    /\ Len(stops) < MaxStops
    /\ stops' = Append(stops, reset)
    /\ IF workers = <<>>
       THEN UNCHANGED <<workers, coros, done, urls_seen, total_pages>>
       ELSE /\ workers' = CancelWorkers(workers)
            /\ coros' = CancelAwaited(workers, coros)
            /\ IF reset
               THEN /\ done' = {}
                    /\ urls_seen' = {}
                    /\ total_pages' = 0
               ELSE UNCHANGED <<done, urls_seen, total_pages>>
    /\ UNCHANGED <<config, todo, unfinished, acknowledged_domains, configured,
                   running, events, enqueued, run_calls, unit>>

\* the caller gives up the run() it stopped and reset, and calls run() on
\* the same crawler again
RunAgain ==
    /\ running = {}
    /\ Len(run_calls) < MaxRuns
    /\ stops # <<>> /\ stops[Len(stops)]
    /\ coros[0].pc \in {"join", "returned", "raised"}
    /\ coros' = [coros EXCEPT ![0] = Frame("run", "created", NoUrl, {})]
    /\ UNCHANGED <<config, urls_seen, done, total_pages, todo, unfinished,
                   acknowledged_domains, configured, workers, running, events,
                   enqueued, stops, run_calls, unit>>

\* ------------------------------------------------------------ behaviours
Tasks == DOMAIN coros \ {0}

Next ==
    \/ RunStart
    \/ RunJoin
    \/ RunJoined
    \/ \E c \in DOMAIN coros :
         \/ AckNext(c)
         \/ AckFetch(c)
         \/ AckFetched(c)
         \/ AckFetchError(c)
         \/ AckWait(c)
         \/ AckWaited(c)
         \/ AckReturn(c)
         \/ PutTodo(c)
    \/ \E c \in Tasks :
         \/ SubStart(c)
         \/ CrawlStart(c)
         \/ CrawlLimited(c)
         \/ CrawlResponse(c)
         \/ CrawlFetchError(c)
         \/ CrawlDone(c)
    \/ \E j \in DOMAIN workers :
         \/ WorkerGet(j)
         \/ WorkerAwait(j)
         \/ WorkerResume(j)
         \/ WorkerCancelled(j)

Spec == Init /\ [][Next]_vars

\* the same crawler with a caller that may stop it
NextStop ==
    \/ Next
    \/ \E c \in Tasks : Cancelled(c)
    \/ \E reset \in BOOLEAN : Stop(reset)

InitStop == Construct(SeedChoices, {StopLimit}, 1..MaxWorkers, {<<>>}, {{}})

SpecStop == InitStop /\ [][NextStop]_vars

\* a crawler that is stopped with a reset, once run() has created the
\* workers, and then run again
StopReset == workers # <<>> /\ Stop(TRUE)

NextRerun ==
    \/ Next
    \/ \E c \in Tasks : Cancelled(c)
    \/ StopReset
    \/ RunAgain

InitRerun == Construct({{"https://a.com/1"}}, {StopLimit}, {1}, {<<>>}, {{}})

SpecRerun == InitRerun /\ [][NextRerun]_vars

\* the crawler in an environment where no request fails: every sitemap and
\* every page arrives, and the event loop resumes whatever is ready
NextLive ==
    \/ RunStart
    \/ RunJoin
    \/ RunJoined
    \/ \E c \in DOMAIN coros :
         \/ AckNext(c)
         \/ AckFetch(c)
         \/ AckFetched(c)
         \/ AckWait(c)
         \/ AckWaited(c)
         \/ AckReturn(c)
         \/ PutTodo(c)
    \/ \E c \in Tasks :
         \/ SubStart(c)
         \/ CrawlStart(c)
         \/ CrawlLimited(c)
         \/ CrawlResponse(c)
         \/ CrawlDone(c)
    \/ \E j \in DOMAIN workers :
         \/ WorkerGet(j)
         \/ WorkerAwait(j)
         \/ WorkerResume(j)
         \/ WorkerCancelled(j)

InitLive == Construct(SeedChoices, LimitChoices, 1..MaxWorkers, {<<>>}, {{}})

SpecLive == InitLive /\ [][NextLive]_vars /\ WF_vars(NextLive)

\* that environment with a caller that may stop the crawler: the event loop
\* is fair to the coroutines, the caller is free to call stop() or not
NextStopLive ==
    \/ NextLive
    \/ \E c \in Tasks : Cancelled(c)
    \/ \E reset \in BOOLEAN : Stop(reset)

SpecStopLive ==
    InitStop /\ [][NextStopLive]_vars
             /\ WF_vars(NextLive \/ \E c \in Tasks : Cancelled(c))

\* ------------------------------------------- _on_found_links, in sequence
\* a caller awaits _on_found_links(urls), one call after the other; the crawl
\* tasks it creates stay in the rate limiter
CallOnFoundLinks(urls) ==
    /\ running = {}
    /\ coros[0].pc \in {"created", "returned"}
    /\ events' = Emit("url_found", urls)
    /\ coros' = [coros EXCEPT ![0].pc = "ack_loop", ![0].arg = urls,
                              ![0].new = urls \ urls_seen,
                              ![0].rest = urls \ urls_seen]
    /\ running' = {0}
    /\ UNCHANGED <<config, urls_seen, done, total_pages, todo, unfinished,
                   acknowledged_domains, configured, workers, enqueued, stops, run_calls, unit>>

\* the loop over the new URLs is over: the call returns to the caller
CallReturn ==
    /\ running = {0}
    /\ coros[0].pc = "put"
    /\ coros[0].put = {}
    /\ coros' = [coros EXCEPT ![0].pc = "returned"]
    /\ running' = {}
    /\ UNCHANGED <<config, urls_seen, done, total_pages, todo, unfinished,
                   acknowledged_domains, configured, workers, events, enqueued,
                   stops, run_calls, unit>>

NextSeq ==
    \/ \E urls \in SUBSET Urls : CallOnFoundLinks(urls)
    \/ CallReturn
    \/ \E c \in DOMAIN coros :
         \/ AckNext(c)
         \/ AckFetch(c)
         \/ AckFetched(c)
         \/ AckFetchError(c)
         \/ AckWait(c)
         \/ AckWaited(c)
         \/ AckReturn(c)
         \/ PutTodo(c)
    \/ \E c \in Tasks : SubStart(c)

InitSeq == Construct({{}}, {MaxLimit}, {1}, {<<>>}, SiteMapLinkSets)

SpecSeq == InitSeq /\ [][NextSeq]_vars

\* ------------------------------------------------- UserAgent on its own
\* the parts of a crawler that stay as __init__ left them while one of its
\* objects is called on its own, and the clock that none of these calls reads
idle == <<config, urls_seen, done, total_pages, todo, unfinished, configured,
          coros, workers, running, events, enqueued, stops, run_calls, clock>>

\* RobotFileParser(robots_url), agent.py line 40: the parser is never read,
\* and such a parser lists no sitemap and lets no URL through
RobotFileParser(robots_url) ==
    [url |-> robots_url, site_maps |-> 0, can_fetch |-> FALSE]

RobotsUrls == {"https://" \o d \o "/robots.txt" : d \in Domains}

\* UserAgent.respect(domain, robots_url)
AgentRespect(domain, robots_url) ==
    /\ Len(calls) < MaxCalls
    /\ acknowledged_domains' = respect(domain, RobotFileParser(robots_url))
    /\ calls' = Append(calls, [op |-> "respect", domain |-> domain,
                               url |-> robots_url, out |-> "None"])
    /\ UNCHANGED <<idle, limiter, objs, shared>>

\* UserAgent.can_access(domain, url): the lookup of line 54 raises KeyError
\* for a domain that was never acknowledged
AgentCanAccess(domain, url) ==
    /\ Len(calls) < MaxCalls
    /\ calls' = Append(calls,
          [op |-> "can_access", domain |-> domain, url |-> url,
           out |-> IF domain \notin DOMAIN acknowledged_domains THEN "KeyError"
                   ELSE IF can_access(domain) THEN "True" ELSE "False"])
    /\ UNCHANGED <<idle, limiter, acknowledged_domains, objs, shared>>

NextAgent ==
    \/ \E d \in Domains, r \in RobotsUrls : AgentRespect(d, r)
    \/ \E d \in Domains, u \in Urls : AgentCanAccess(d, raw(u))

InitAgent == Construct({{}}, {0}, {1}, {<<>>}, {{}})

SpecAgent == InitAgent /\ [][NextAgent]_vars

\* --------------------------------------------- rate limiters on their own
\* numbers are fractions <<numerator, denominator>> with denominator > 0
Zero == <<0, 1>>
RatLess(a, b) == a[1] * b[2] < b[1] * a[2]
RatEq(a, b) == a[1] * b[2] = b[1] * a[2]

\* int(x): the fraction is cut towards zero
int(x) == IF x[1] >= 0 THEN x[1] \div x[2] ELSE -((-x[1]) \div x[2])

None == <<>>

\* the crawl delays and the request rates <<requests, seconds>> a
\* configuration may carry
CrawlDelays == {None, <<-1, 1>>, <<0, 1>>, <<1, 2>>, <<3, 2>>, <<2, 1>>}
RequestRates == {None, <<1, 1>>, <<1, 2>>, <<2, 1>>, <<0, 1>>, <<1, 0>>}
Configs == [crawl_delay : CrawlDelays, request_rate : RequestRates]

StaticRateLimiter(time_in_seconds) == [kind |-> "static", time |-> time_in_seconds]

\* TokenBucketRateLimiter.__init__, for a positive rate
TokenBucketRateLimiter(tokens_per_second) ==
    [kind |-> "bucket", tokens_per_second |-> tokens_per_second, tokens |-> Zero]

\* the limiters a test may build
Limiters ==
    {StaticRateLimiter(t) : t \in {Zero, <<1, 1>>}}
      \cup {TokenBucketRateLimiter(r) : r \in {<<1, 1>>, <<2, 1>>}}

\* a limiter that takes every new delay as it comes
static_overwrite(time, new_request_delay) == new_request_delay

\* StaticRateLimiter.configure, lines 103-105: the greater delay is kept
static_update(time, new_request_delay) ==
    IF RatLess(time, new_request_delay) THEN new_request_delay ELSE time

\* StaticRateLimiter.configure: errors.InvalidConfigurationError is not
\* defined in errors.py, so the raise of line 101 ends in AttributeError
static_configure(self, cfg) ==
    IF cfg.crawl_delay = None /\ cfg.request_rate = None
    THEN [exc |-> "UnboundLocalError", self |-> self]
    ELSE IF cfg.crawl_delay = None /\ cfg.request_rate[1] = 0
    THEN [exc |-> "ZeroDivisionError", self |-> self]
    ELSE LET new_request_delay ==
                 IF cfg.crawl_delay # None THEN cfg.crawl_delay
                 ELSE <<cfg.request_rate[2], cfg.request_rate[1]>>
         IN IF RatLess(new_request_delay, Zero)
            THEN [exc |-> "AttributeError", self |-> self]
            ELSE [exc |-> "",
                  self |-> [self EXCEPT
                              !.time = static_update(self.time, new_request_delay)]]

\* TokenBucketRateLimiter.configure, lines 208-209: the lower rate is kept
bucket_update(tokens_per_second, new_token_rate) ==
    IF RatLess(new_token_rate, tokens_per_second)
    THEN new_token_rate ELSE tokens_per_second

\* TokenBucketRateLimiter.configure
bucket_configure(self, cfg) ==
    IF cfg.crawl_delay = None /\ cfg.request_rate = None
    THEN [exc |-> "", self |-> self]
    ELSE IF \/ cfg.crawl_delay # None /\ int(cfg.crawl_delay) = 0
            \/ cfg.crawl_delay = None /\ cfg.request_rate[2] = 0
    THEN [exc |-> "ZeroDivisionError", self |-> self]
    ELSE LET new_token_rate ==
                 IF cfg.crawl_delay # None
                 THEN IF int(cfg.crawl_delay) > 0
                      THEN <<1, int(cfg.crawl_delay)>>
                      ELSE <<-1, -int(cfg.crawl_delay)>>
                 ELSE cfg.request_rate
         IN IF RatLess(new_token_rate, Zero)
            THEN [exc |-> "AttributeError", self |-> self]
            ELSE [exc |-> "",
                  self |-> [self EXCEPT
                              !.tokens_per_second =
                                  bucket_update(self.tokens_per_second, new_token_rate)]]

\* RateLimiter.configure of the limiter at hand
configure(self, cfg) ==
    IF self.kind = "static" THEN static_configure(self, cfg)
    ELSE bucket_configure(self, cfg)

\* one configure call on the limiter
LimiterConfigure(cfg) ==
    /\ Len(calls) <= MaxConfigures
    /\ limiter' = configure(limiter, cfg).self
    /\ calls' = Append(calls, [op |-> "configure", crawl_delay |-> cfg.crawl_delay,
                               request_rate |-> cfg.request_rate,
                               exc |-> configure(limiter, cfg).exc,
                               before |-> limiter, after |-> limiter'])
    /\ UNCHANGED <<idle, acknowledged_domains, objs, shared>>

NextLimiter == \E cfg \in Configs : LimiterConfigure(cfg)

\* a limiter was built; the first entry of the history is that call
InitLimiter ==
    /\ CrawlerInit({{}}, {0}, {1}, {<<>>}, {{}})
    /\ limiter \in Limiters
    /\ objs = <<>>
    /\ shared = ClassAttributes
    /\ calls = <<[op |-> "init", crawl_delay |-> None, request_rate |-> None,
                  exc |-> "", before |-> limiter, after |-> limiter]>>

SpecLimiter == InitLimiter /\ [][NextLimiter]_vars

\* ---------------------------------------------------- PerDomainRateLimiter
\* tldextract.extract(url).domain on the strings of the model: the label in
\* front of the public suffix
extract_domain(url) ==
    IF url = "" THEN ""
    ELSE IF url = "localhost" THEN "localhost"
    ELSE IF url \in Domains THEN (IF url = "a.com" THEN "a" ELSE "b")
    ELSE IF parse_url(url).domain = "a.com" THEN "a" ELSE "b"

\* PerDomainRateLimiter(limiter_factory): the factory is the class default, a
\* partial of StaticRateLimiter, or what DEFAULT_OPTIONS passes, a limiter
\* instance, which cannot be called
PerDomainRateLimiter(limiter_factory) ==
    [kind |-> "per_domain", factory |-> limiter_factory,
     domain_to_limiter |-> <<>>, made |-> 0, times |-> <<>>]

\* the limiter after self.default_limiter_factory() was called once
\* (StaticRateLimiter with time_in_seconds=1, lines 219-221): times holds the
\* delay of every limiter made, by its number
factory_called(self) ==
    IF self.factory = "partial"
    THEN [self EXCEPT !.made = self.made + 1,
                      !.times = Append(self.times, <<1, 1>>)]
    ELSE self

\* PerDomainRateLimiter.limit(url), lines 233-235: the default of dict.get is
\* built before the lookup, and limit(url) of the limiter that comes out
\* takes no argument
PerDomainLimit(url) ==
    /\ Len(calls) <= MaxCalls
    /\ limiter' = factory_called(limiter)
    /\ calls' = Append(calls,
          [op |-> "limit", url |-> url, exc |-> "TypeError",
           used |-> IF limiter.factory # "partial" THEN 0
                    ELSE IF extract_domain(url) \in DOMAIN limiter.domain_to_limiter
                    THEN limiter.domain_to_limiter[extract_domain(url)]
                    ELSE limiter.made + 1,
           before |-> limiter, after |-> limiter'])
    /\ UNCHANGED <<idle, acknowledged_domains, objs, shared>>

\* PerDomainRateLimiter.add_domain(url)
PerDomainAddDomain(url) ==
    /\ Len(calls) <= MaxCalls
    /\ limiter' =
          IF extract_domain(url) = "" \/ limiter.factory # "partial" THEN limiter
          ELSE [factory_called(limiter) EXCEPT
                  !.domain_to_limiter =
                      [d \in DOMAIN limiter.domain_to_limiter \cup {extract_domain(url)} |->
                         IF d = extract_domain(url) THEN limiter.made + 1
                         ELSE limiter.domain_to_limiter[d]]]
    /\ calls' = Append(calls,
          [op |-> "add_domain", url |-> url,
           exc |-> IF extract_domain(url) = "" THEN "InvalidUrlError"
                   ELSE IF limiter.factory # "partial" THEN "TypeError" ELSE "",
           used |-> IF extract_domain(url) = "" \/ limiter.factory # "partial"
                    THEN 0 ELSE limiter.made + 1,
           before |-> limiter, after |-> limiter'])
    /\ UNCHANGED <<idle, acknowledged_domains, objs, shared>>

\* the configurations a per-domain limiter is given: a host name and a delay
DomainConfigs ==
    [domain : {"a.com", "localhost"}, crawl_delay : {None, <<2, 1>>, <<3, 1>>},
     request_rate : {None}]

\* the per-domain limiter after add_domain(domain) with the default factory
domain_added(self, domain) ==
    [factory_called(self) EXCEPT
       !.domain_to_limiter =
           [d \in DOMAIN self.domain_to_limiter \cup {extract_domain(domain)} |->
              IF d = extract_domain(domain) THEN self.made + 1
              ELSE self.domain_to_limiter[d]]]

\* PerDomainRateLimiter.configure(config), lines 279-284: only a domain that
\* is not a key of the map is added and configured, and it is added under
\* extract_domain(domain) but looked up under the domain itself
per_domain_configure(self, cfg) ==
    IF cfg.domain \in DOMAIN self.domain_to_limiter
    THEN [exc |-> "", self |-> self]
    ELSE IF self.factory # "partial"
    THEN [exc |-> "TypeError", self |-> self]
    ELSE IF cfg.domain \notin DOMAIN domain_added(self, cfg.domain).domain_to_limiter
    THEN [exc |-> "KeyError", self |-> domain_added(self, cfg.domain)]
    ELSE LET added == domain_added(self, cfg.domain)
             id == added.domain_to_limiter[cfg.domain]
             res == static_configure(StaticRateLimiter(added.times[id]), cfg)
         IN [exc |-> res.exc,
             self |-> [added EXCEPT !.times[id] = res.self.time]]

PerDomainConfigure(cfg) ==
    /\ Len(calls) <= MaxCalls
    /\ limiter' = per_domain_configure(limiter, cfg).self
    /\ calls' = Append(calls,
          [op |-> "configure", url |-> cfg.domain,
           exc |-> per_domain_configure(limiter, cfg).exc, used |-> 0,
           crawl_delay |-> cfg.crawl_delay,
           before |-> limiter, after |-> limiter'])
    /\ UNCHANGED <<idle, acknowledged_domains, objs, shared>>

NextPerDomain ==
    \/ \E u \in Urls : PerDomainLimit(raw(u))
    \/ \E s \in {raw(u) : u \in Urls} \cup {""} : PerDomainAddDomain(s)
    \/ \E cfg \in DomainConfigs : PerDomainConfigure(cfg)

InitPerDomain ==
    /\ CrawlerInit({{}}, {0}, {1}, {<<>>}, {{}})
    /\ limiter \in {PerDomainRateLimiter(f) : f \in {"partial", "instance"}}
    /\ objs = <<>>
    /\ shared = ClassAttributes
    /\ calls = <<[op |-> "init", url |-> "", exc |-> "", used |-> 0,
                  before |-> limiter, after |-> limiter]>>

SpecPerDomain == InitPerDomain /\ [][NextPerDomain]_vars

\* ------------------------------------------------------------ naja.filters
\* Python strings whose characters matter are sequences of characters
Upper == <<"A", "B", "C", "D", "E", "F", "G", "H", "I", "J", "K", "L", "M", "N", "O", "P", "Q", "R", "S", "T", "U", "V", "W", "X", "Y", "Z">>
Lower == <<"a", "b", "c", "d", "e", "f", "g", "h", "i", "j", "k", "l", "m", "n", "o", "p", "q", "r", "s", "t", "u", "v", "w", "x", "y", "z">>

\* str.lower(), filters.py lines 166 and 173
lower(text) ==
    [i \in 1..Len(text) |->
       IF \E n \in 1..26 : Upper[n] = text[i]
       THEN Lower[CHOOSE n \in 1..26 : Upper[n] = text[i]]
       ELSE text[i]]

\* str.startswith, str.endswith and the `in` of two strings, lines 179-189
startswith(value, text) ==
    Len(text) <= Len(value) /\ SubSeq(value, 1, Len(text)) = text

endswith(value, text) ==
    Len(text) <= Len(value)
       /\ SubSeq(value, Len(value) - Len(text) + 1, Len(value)) = text

contains(value, text) ==
    \E k \in 0..(Len(value) - Len(text)) : SubSeq(value, k + 1, k + Len(text)) = text

\* re.match, line 156, for a pattern that is plain text: a match at position 0
re_match(regex, value) == startswith(value, regex)

\* the URLs the filters are called on: the properties of a parsers.Url
FilterUrls ==
    {[domain |-> <<"W", "W", "W", ".", "E", "x", "a", "m", "p", "l", "e", ".", "c", "o", "m">>,
      path |-> <<"/", "d", "o", "c", "s">>],
     [domain |-> <<"A", "P", "I", ".", "e", "x", "a", "m", "p", "l", "e", ".", "c", "o", "m">>,
      path |-> <<"/", "D", "o", "c", "s">>],
     [domain |-> <<"a", "p", "i", ".", "e", "x", "a", "m", "p", "l", "e", ".", "c", "o", "m">>,
      path |-> <<"/">>]}

\* Filter.__init__, lines 70-82, with the attributes its subclasses add; In
\* and Matches have no case_sensitive attribute and compare the value as it is
Filter(kind, url_prop, arg, case_sensitive) ==
    [kind |-> kind, url_prop |-> url_prop, arg |-> arg,
     case_sensitive |-> case_sensitive, inverted |-> FALSE, chained |-> <<>>]

In(url_prop, group) == Filter("In", url_prop, group, TRUE)

Matches(url_prop, regex) == Filter("Matches", url_prop, regex, TRUE)

\* TextFilter.__init__, lines 160-167: the text is lowercased when the filter
\* is not case-sensitive
TextFilter(kind, url_prop, text, case_sensitive) ==
    Filter(kind, url_prop, IF case_sensitive THEN text ELSE lower(text),
           case_sensitive)

\* the property is compared as it is, whatever the flag
get_url_property_as_is(self, url) == url[self.url_prop]

\* Filter._get_url_property, lines 96-105, and its override in TextFilter,
\* lines 169-174
get_url_property(self, url) ==
    IF self.kind \in {"StartsWith", "EndsWith", "Contains"} /\ ~self.case_sensitive
    THEN lower(url[self.url_prop])
    ELSE url[self.url_prop]

\* _apply of In, Matches, StartsWith, EndsWith and Contains
apply(self, url) ==
    CASE self.kind = "In" -> get_url_property(self, url) \in self.arg
      [] self.kind = "Matches" -> re_match(self.arg, get_url_property(self, url))
      [] self.kind = "StartsWith" -> startswith(get_url_property(self, url), self.arg)
      [] self.kind = "EndsWith" -> endswith(get_url_property(self, url), self.arg)
      [] self.kind = "Contains" -> contains(get_url_property(self, url), self.arg)

\* a bool where Python does arithmetic on it
bool_as_int(b) == IF b THEN 1 ELSE 0

\* Filter.filter, lines 107-121: the chained filters and then the filter's own
\* test, which is True when apply minus the inverted flag is not zero
RECURSIVE filter(_, _)
filter(self, url) ==
    /\ \A i \in 1..Len(self.chained) : filter(self.chained[i], url)
    /\ bool_as_int(apply(self, url)) - bool_as_int(self.inverted) # 0

\* Filter.__invert__, lines 126-129: a copy with the flag toggled
Filter_invert(self) == [self EXCEPT !.inverted = ~self.inverted]

\* the copy of self, with nothing chained to it
Filter_and_alone(self, other) == self

\* Filter.__and__ for two filters, lines 131-136: a copy of self with other
\* added to its chain
Filter_and(self, other) == [self EXCEPT !.chained = Append(self.chained, other)]

\* the arguments the simple filters are built from
BaseFilters ==
    [kind : {"StartsWith", "EndsWith", "Contains"}, url_prop : {"domain"},
     arg : {<<"a", "p", "i", ".">>, <<".", "C", "O", "M">>},
     case_sensitive : BOOLEAN]
    \cup {[kind |-> "In", url_prop |-> "domain",
           arg |-> {<<"A", "P", "I", ".", "e", "x", "a", "m", "p", "l", "e", ".", "c", "o", "m">>},
           case_sensitive |-> TRUE],
          [kind |-> "Matches", url_prop |-> "domain", arg |-> <<"W", "W", "W">>,
           case_sensitive |-> TRUE]}

\* the call of the class that the arguments name
construct(given) ==
    CASE given.kind = "In" -> In(given.url_prop, given.arg)
      [] given.kind = "Matches" -> Matches(given.url_prop, given.arg)
      [] OTHER -> TextFilter(given.kind, given.url_prop, given.arg,
                             given.case_sensitive)

\* a filter is built from its class
FilterNew(given) ==
    /\ Len(objs) < MaxFilters
    /\ objs' = Append(objs, [f |-> construct(given), op |-> "new", left |-> 0,
                             right |-> 0, given |-> given])
    /\ UNCHANGED <<idle, acknowledged_domains, limiter, calls, shared>>

\* objs[i] & objs[j]
FilterAnd(i, j) ==
    /\ Len(objs) < MaxFilters
    /\ objs' = Append(objs, [f |-> Filter_and(objs[i].f, objs[j].f),
                             op |-> "and", left |-> i, right |-> j,
                             given |-> <<>>])
    /\ UNCHANGED <<idle, acknowledged_domains, limiter, calls, shared>>

\* ~objs[i]
FilterInvert(i) ==
    /\ Len(objs) < MaxFilters
    /\ objs' = Append(objs, [f |-> Filter_invert(objs[i].f),
                             op |-> "invert", left |-> i, right |-> 0,
                             given |-> <<>>])
    /\ UNCHANGED <<idle, acknowledged_domains, limiter, calls, shared>>

\* objs[k](url), Filter.__call__, lines 123-124; calls keeps the last call
FilterCall(k, url) ==
    /\ calls' = <<[op |-> "filter", k |-> k, url |-> url,
                   out |-> filter(objs[k].f, url)]>>
    /\ UNCHANGED <<idle, acknowledged_domains, limiter, objs, shared>>

NextFilter ==
    \/ \E given \in BaseFilters : FilterNew(given)
    \/ \E i, j \in 1..Len(objs) : FilterAnd(i, j)
    \/ \E i \in 1..Len(objs) : FilterInvert(i)
    \/ \E k \in 1..Len(objs), url \in FilterUrls : FilterCall(k, url)

InitFilter == Construct({{}}, {0}, {1}, {<<>>}, {{}})

SpecFilter == InitFilter /\ [][NextFilter]_vars

\* ---------------------------------------- filters from keyword arguments
\* url_valid_properties, lines 43-45: the properties of parsers.Url
url_valid_properties ==
    {<<"d", "o", "m", "a", "i", "n">>, <<"f", "i", "l", "e", "t", "y", "p", "e">>,
     <<"f", "r", "a", "g", "m", "e", "n", "t">>, <<"p", "a", "r", "a", "m", "s">>,
     <<"p", "a", "t", "h">>, <<"q", "u", "e", "r", "y">>, <<"r", "a", "w">>,
     <<"s", "c", "h", "e", "m", "e">>}

\* the attribute of a URL that a valid property name reads (getattr, line 105)
attribute(name) ==
    CASE name = <<"d", "o", "m", "a", "i", "n">> -> "domain"
      [] name = <<"p", "a", "t", "h">> -> "path"
      [] name = <<"s", "c", "h", "e", "m", "e">> -> "scheme"
      [] name = <<"q", "u", "e", "r", "y">> -> "query"
      [] name = <<"f", "r", "a", "g", "m", "e", "n", "t">> -> "fragment"
      [] name = <<"p", "a", "r", "a", "m", "s">> -> "params"
      [] name = <<"r", "a", "w">> -> "raw"
      [] name = <<"f", "i", "l", "e", "t", "y", "p", "e">> -> "filetype"
      [] OTHER -> "unknown"

\* the lowercased names of the classes that _get_filter_subclasses (lines
\* 192-221) returns, in its order: In, Matches, StartsWith, EndsWith, Contains
FilterSubclasses == <<"In", "Matches", "StartsWith", "EndsWith", "Contains">>

class_name_lower(klass) ==
    CASE klass = "In" -> <<"i", "n">>
      [] klass = "Matches" -> <<"m", "a", "t", "c", "h", "e", "s">>
      [] klass = "StartsWith" -> <<"s", "t", "a", "r", "t", "s", "w", "i", "t", "h">>
      [] klass = "EndsWith" -> <<"e", "n", "d", "s", "w", "i", "t", "h">>
      [] klass = "Contains" -> <<"c", "o", "n", "t", "a", "i", "n", "s">>

\* str.split("__"), line 280: the parts between the separators, left to right
RECURSIVE split(_)
split(key) ==
    LET at == {k \in 1..(Len(key) - 1) : key[k] = "_" /\ key[k + 1] = "_"} IN
    IF at = {} THEN <<key>>
    ELSE LET k == CHOOSE n \in at : \A m \in at : n <= m IN
         <<SubSeq(key, 1, k - 1)>> \o split(SubSeq(key, k + 2, Len(key)))

\* _validate_filter_key, lines 224-249: the exception it raises, or ""
validate_filter_key(key) ==
    IF key # <<"i", "n">>
       /\ key \notin {modifier \o class_name_lower(FilterSubclasses[n]) :
                        modifier \in {<<"i">>, <<>>}, n \in 1..Len(FilterSubclasses)}
    THEN "ValueError" ELSE ""

\* every property name is let through
validate_url_property_any(value) == ""

\* _validate_url_property, lines 252-267: the exception it raises, or ""
validate_url_property(value) ==
    IF value \notin url_valid_properties THEN "ValueError" ELSE ""

\* the values a keyword argument is given: a string or a list of strings
KwargValues ==
    {[type |-> "str", v |-> <<"a", "p", "i", ".">>],
     [type |-> "list", v |-> {<<"A", "P", "I", ".", "e", "x", "a", "m", "p", "l", "e", ".", "c", "o", "m">>}]}

\* klass(url_prop, value), line 286: no class checks the type of the value,
\* and In makes a set of it (of the characters of a string)
klass_call(klass, url_prop, value) ==
    CASE klass = "In" ->
           In(url_prop, IF value.type = "str"
                        THEN {<<value.v[n]>> : n \in 1..Len(value.v)}
                        ELSE value.v)
      [] klass = "Matches" -> Matches(url_prop, value.v)
      [] OTHER -> Filter(klass, url_prop, value.v, TRUE)

\* klass(url_prop, value, case_sensitive=...), line 293, for a string value:
\* In and Matches hand the keyword to Filter.__init__, which does not take it
klass_call_with_case(klass, url_prop, value, case_sensitive) ==
    IF klass \in {"In", "Matches"}
    THEN [exc |-> "TypeError", out |-> None]
    ELSE [exc |-> "",
          out |-> TextFilter(klass, url_prop, value.v, case_sensitive)]

\* the loop of create_from_kwarg, lines 284-294, from the n-th class on
RECURSIVE create_loop(_, _, _, _)
create_loop(n, url_prop, filter_key, value) ==
    IF n > Len(FilterSubclasses) THEN [exc |-> "", out |-> None]
    ELSE IF class_name_lower(FilterSubclasses[n]) = filter_key
    THEN [exc |-> "", out |-> klass_call(FilterSubclasses[n], url_prop, value)]
    ELSE IF class_name_lower(FilterSubclasses[n]) = Tail(filter_key)
    THEN IF value.type # "str" THEN [exc |-> "ValueError", out |-> None]
         ELSE klass_call_with_case(FilterSubclasses[n], url_prop, value,
                                   Head(filter_key) # "i")
    ELSE create_loop(n + 1, url_prop, filter_key, value)

\* create_from_kwarg(key, value), lines 270-294: the exception raised, or the
\* filter (or None) returned
create_from_kwarg(key, value) ==
    LET parts == split(key) IN
    IF Len(parts) # 2 THEN [exc |-> "ValueError", out |-> None]
    ELSE IF validate_filter_key(parts[2]) # ""
    THEN [exc |-> validate_filter_key(parts[2]), out |-> None]
    ELSE IF validate_url_property(parts[1]) # ""
    THEN [exc |-> validate_url_property(parts[1]), out |-> None]
    ELSE create_loop(1, attribute(parts[1]), parts[2], value)

\* get_args(UrlProperty), filterers/filters.py lines 24-26
UrlPropertyArgs ==
    {<<"d", "o", "m", "a", "i", "n">>, <<"p", "a", "t", "h">>,
     <<"p", "a", "r", "a", "m", "s">>, <<"q", "u", "e", "r", "y">>,
     <<"f", "r", "a", "g", "m", "e", "n", "t">>, <<"s", "c", "h", "e", "m", "e">>,
     <<"f", "i", "l", "e", "t", "y", "p", "e">>}

LowercaseLetters(text) ==
    text # <<>> /\ \A n \in 1..Len(text) : \E m \in 1..26 : Lower[m] = text[n]

\* UrlFilterer._parse_filter_kwarg, filterers/__init__.py lines 27-55. The
\* regular expression of line 29 gives the groups (property, modifier,
\* operator); line 31 tests the modifier, "i" or "", against the property
\* names and raises; the match of line 34 is on a pair and its cases are
\* triples, so that nothing is returned there either, and line 55 raises
parse_filter_kwarg(key, value) ==
    LET parts == split(key)
        matched == /\ Len(parts) = 2
                   /\ LowercaseLetters(parts[1])
                   /\ LowercaseLetters(parts[2])
        modifier == IF Len(parts[2]) > 1 /\ Head(parts[2]) = "i"
                    THEN <<"i">> ELSE <<>>
    IN IF matched /\ modifier \notin UrlPropertyArgs
       THEN [exc |-> "ValueError", out |-> None]
       ELSE [exc |-> "ValueError", out |-> None]

\* the keys of the keyword arguments: <property>__[i]<operator>
KeyOf(prop, modifier, operator) == prop \o <<"_", "_">> \o modifier \o operator

Operators ==
    {class_name_lower(FilterSubclasses[n]) : n \in 1..Len(FilterSubclasses)}

Keys ==
    {KeyOf(prop, modifier, operator) :
        prop \in {<<"d", "o", "m", "a", "i", "n">>, <<"h", "o", "s", "t">>},
        modifier \in {<<>>, <<"i">>},
        operator \in Operators \cup {<<"f", "o", "o">>}}
    \cup {<<"d", "o", "m", "a", "i", "n">>, KeyOf(<<"d", "o", "m", "a", "i", "n">>, <<>>, <<"i", "n">>) \o <<"_", "_">> \o <<"i", "n">>}

\* create_from_kwarg(key, value) is called; calls keeps the last call
CreateFromKwarg(key, value) ==
    /\ calls' = <<[op |-> "create_from_kwarg", key |-> key, value |-> value,
                   exc |-> create_from_kwarg(key, value).exc,
                   out |-> create_from_kwarg(key, value).out,
                   before |-> <<>>, after |-> <<>>]>>
    /\ UNCHANGED <<idle, acknowledged_domains, limiter, objs, shared>>

\* Crawler.filter(*args, key=value), crawler.py lines 175-209: the list is
\* built before _filters is extended, so an exception leaves _filters alone
CrawlerFilter(args, key, value) ==
    LET made == create_from_kwarg(key, value) IN
    /\ Len(filters) < MaxKwargCalls
    /\ filters' = IF made.exc # "" THEN filters
                  ELSE filters \o args
                       \o (IF made.out # None THEN <<made.out>> ELSE <<>>)
    /\ calls' = <<[op |-> "Crawler.filter", key |-> key, value |-> value,
                   exc |-> made.exc, out |-> made.out,
                   before |-> filters, after |-> filters']>>
    /\ UNCHANGED <<start_urls, limit, num_workers, site_map_links, urls_seen,
                   done, total_pages, todo, unfinished, configured, coros,
                   workers, running, events, enqueued, stops, run_calls,
                   acknowledged_domains, limiter, objs, shared, clock>>

\* UrlFilterer(key=value), filterers/__init__.py lines 57-59
UrlFiltererInit(key, value) ==
    LET made == parse_filter_kwarg(key, value) IN
    /\ shared' = IF made.exc # "" THEN shared
                 ELSE [shared EXCEPT !.filters = @ \cup {made.out}]
    /\ calls' = <<[op |-> "UrlFilterer", key |-> key, value |-> value,
                   exc |-> made.exc, out |-> made.out,
                   before |-> shared.filters, after |-> shared'.filters]>>
    /\ UNCHANGED <<idle, acknowledged_domains, limiter, objs>>

NextKwarg ==
    \/ \E key \in Keys, value \in KwargValues : CreateFromKwarg(key, value)
    \/ \E args \in {<<>>, <<In("domain", {})>>}, key \in Keys, value \in KwargValues :
          CrawlerFilter(args, key, value)
    \/ \E key \in Keys, value \in KwargValues : UrlFiltererInit(key, value)

InitKwarg == Construct({{}}, {0}, {1}, {<<>>}, {{}})

SpecKwarg == InitKwarg /\ [][NextKwarg]_vars

\* ---------------------------------------------------------- naja.filterers
\* the filters of naja.filterers that are built: In and StartsWith on the
\* domain, filterers/filters.py lines 112-143
FilterersBase ==
    {[kind |-> "In", target |-> "domain", arg |-> {<<"A", "P", "I", ".", "e", "x", "a", "m", "p", "l", "e", ".", "c", "o", "m">>},
      case_sensitive |-> TRUE],
     [kind |-> "StartsWith", target |-> "domain", arg |-> <<"a", "p", "i", ".">>,
      case_sensitive |-> TRUE],
     [kind |-> "StartsWith", target |-> "domain", arg |-> <<"a", "p", "i", ".">>,
      case_sensitive |-> FALSE]}

\* In.__init__ and TextFilter.__init__, lines 113-138: the attributes of the
\* instance; __inverted is the class attribute of line 61 until ~ sets it, and
\* no instance has a _chained of its own
filterers_init(given) ==
    [kind |-> given.kind, target |-> given.target,
     arg |-> IF given.case_sensitive \/ given.kind = "In" THEN given.arg
             ELSE lower(given.arg),
     case_sensitive |-> given.case_sensitive, inverted |-> FALSE]

\* the two UrlFilterer objects, each built with no keyword argument
Filterers == {"A", "B"}

\* how deep the calls of the model may nest before RecursionError
RecursionLimit == 3

\* apply of In and StartsWith, lines 117-118 and 142-143; the target of a
\* text filter that is not case-sensitive is the lambda of line 138, which
\* calls itself
filterers_apply(self, url) ==
    IF self.kind = "In" THEN (IF url[self.target] \in self.arg THEN "True" ELSE "False")
    ELSE IF ~self.case_sensitive THEN "RecursionError"
    ELSE IF startswith(url[self.target], self.arg) THEN "True" ELSE "False"

\* Filter.filter, lines 82-94, at the given depth of calls: the filters of
\* the class attribute _chained, each of which has the same _chained, and
\* then the filter's own test
RECURSIVE filterers_filter(_, _, _, _, _)
filterers_filter(heap, class, id, url, depth) ==
    IF depth > RecursionLimit THEN "RecursionError"
    ELSE IF \E n \in 1..Len(class.chained) :
              filterers_filter(heap, class, class.chained[n], url, depth + 1)
                 = "RecursionError"
    THEN "RecursionError"
    ELSE IF filterers_apply(heap[id], url) = "RecursionError" THEN "RecursionError"
    ELSE IF /\ \A n \in 1..Len(class.chained) :
                  filterers_filter(heap, class, class.chained[n], url, depth + 1)
                     = "True"
            /\ bool_as_int(filterers_apply(heap[id], url) = "True")
                  - bool_as_int(heap[id].inverted) # 0
    THEN "True" ELSE "False"

\* what UrlFilterer.process(url) may give, filterers/__init__.py lines 77-78:
\* self.filters is the set of the class; all() stops at the first filter
\* that fails, in the order of the set, which the code does not fix; an
\* exception that leaves the call is the record [exc |-> its name]
process(self, heap, class, url) ==
    LET outs == {filterers_filter(heap, class, id, url, 1) : id \in class.filters} IN
    (IF outs \subseteq {"True"} THEN {url} ELSE {})
    \cup (IF "False" \in outs THEN {None} ELSE {})
    \cup (IF "RecursionError" \in outs THEN {[exc |-> "RecursionError"]} ELSE {})

\* the state of the objects of naja.filterers
Heap == [objs |-> objs, shared |-> shared]

Called(op, who, id, url, out) ==
    /\ Len(calls) < MaxCalls
    /\ calls' = Append(calls, [op |-> op, who |-> who, id |-> id, url |-> url,
                               out |-> out, before |-> Heap,
                               after |-> [objs |-> objs', shared |-> shared']])

\* a filter is built from its class
FilterersNew(given) ==
    /\ objs' = Append(objs, filterers_init(given))
    /\ shared' = shared
    /\ Called("new", "", Len(objs) + 1, NoUrl, "")
    /\ UNCHANGED <<idle, acknowledged_domains, limiter>>

\* ~objs[i], Filter.__invert__, lines 100-102: the flag of the filter itself
\* is set, and the filter itself is returned
FilterersInvert(i) ==
    /\ objs' = [objs EXCEPT ![i].inverted = TRUE]
    /\ shared' = shared
    /\ Called("invert", "", i, NoUrl, "")
    /\ UNCHANGED <<idle, acknowledged_domains, limiter>>

\* objs[i] & objs[j], Filter.__and__, lines 104-109: the copy has the
\* attributes of the instance, and other is appended to the list of the class
FilterersAnd(i, j) ==
    /\ objs' = Append(objs, objs[i])
    /\ shared' = [shared EXCEPT !.chained = Append(@, j)]
    /\ Called("and", "", Len(objs) + 1, NoUrl, "")
    /\ UNCHANGED <<idle, acknowledged_domains, limiter>>

\* self.filter(objs[id]), filterers/__init__.py lines 61-75
UrlFiltererFilter(self, id) ==
    /\ shared' = [shared EXCEPT !.filters = @ \cup {id}]
    /\ objs' = objs
    /\ Called("filter", self, id, NoUrl, "")
    /\ UNCHANGED <<idle, acknowledged_domains, limiter>>

\* self.process(url)
UrlFiltererProcess(self, url) ==
    /\ UNCHANGED <<idle, acknowledged_domains, limiter, objs, shared>>
    /\ \E out \in process(self, objs, shared, url) :
          Called("process", self, 0, url, out)

NextFilterers ==
    \/ \E given \in FilterersBase : FilterersNew(given)
    \/ \E i \in 1..Len(objs) : FilterersInvert(i)
    \/ \E i, j \in 1..Len(objs) : FilterersAnd(i, j)
    \/ \E self \in Filterers, id \in 1..Len(objs) : UrlFiltererFilter(self, id)
    \/ \E self \in Filterers, url \in FilterUrls : UrlFiltererProcess(self, url)

InitFilterers == Construct({{}}, {0}, {1}, {<<>>}, {{}})

SpecFilterers == InitFilterers /\ [][NextFilterers]_vars

\* ------------------------------------------------------------ naja.parsers
\* urllib.parse of Python 3.11, as parsers.py calls it, on strings without
\* blanks, control characters and brackets
Digits == <<"0", "1", "2", "3", "4", "5", "6", "7", "8", "9">>

\* scheme_chars: the letters, the digits, and + - .
scheme_chars ==
    {Lower[n] : n \in 1..26} \cup {Upper[n] : n \in 1..26}
      \cup {Digits[n] : n \in 1..10} \cup {"+", "-", "."}

uses_netloc ==
    {<<>>, <<"f", "t", "p">>, <<"h", "t", "t", "p">>, <<"f", "i", "l", "e">>,
     <<"h", "t", "t", "p", "s">>, <<"w", "s">>, <<"w", "s", "s">>}

uses_params ==
    {<<>>, <<"f", "t", "p">>, <<"h", "t", "t", "p">>, <<"h", "t", "t", "p", "s">>,
     <<"t", "e", "l">>}

\* str.find(c, start) and str.rfind(c), counted from 1; 0 when c is absent
find(text, c, start) ==
    LET at == {k \in start..Len(text) : text[k] = c} IN
    IF at = {} THEN 0 ELSE CHOOSE k \in at : \A m \in at : k <= m

rfind(text, c) ==
    LET at == {k \in 1..Len(text) : text[k] = c} IN
    IF at = {} THEN 0 ELSE CHOOSE k \in at : \A m \in at : k >= m

\* text[:k - 1] and text[k:] for a position counted from 1
upto(text, k) == SubSeq(text, 1, k - 1)
after(text, k) == SubSeq(text, k + 1, Len(text))

\* _splitnetloc(url, 2): the netloc ends at the first of / ? #
splitnetloc(url) ==
    LET ends == {k \in 3..Len(url) : url[k] \in {"/", "?", "#"}}
        delim == IF ends = {} THEN Len(url) + 1
                 ELSE CHOOSE k \in ends : \A m \in ends : k <= m
    IN [netloc |-> SubSeq(url, 3, delim - 1), url |-> SubSeq(url, delim, Len(url))]

\* urlsplit(url), its last step: the query is cut off at the first ?
split_query(scheme, netloc, url, fragment) ==
    [scheme |-> scheme, netloc |-> netloc,
     path |-> IF find(url, "?", 1) > 0 THEN upto(url, find(url, "?", 1)) ELSE url,
     query |-> IF find(url, "?", 1) > 0 THEN after(url, find(url, "?", 1)) ELSE <<>>,
     fragment |-> fragment]

\* the fragment is cut off at the first #
split_fragment(scheme, netloc, url) ==
    IF find(url, "#", 1) > 0
    THEN split_query(scheme, netloc, upto(url, find(url, "#", 1)),
                     after(url, find(url, "#", 1)))
    ELSE split_query(scheme, netloc, url, <<>>)

\* a netloc is read when the rest begins with two slashes
split_netloc(scheme, url) ==
    IF Len(url) >= 2 /\ url[1] = "/" /\ url[2] = "/"
    THEN split_fragment(scheme, splitnetloc(url).netloc, splitnetloc(url).url)
    ELSE split_fragment(scheme, <<>>, url)

\* what stands before the first colon, at position i, is a scheme when it
\* begins with a letter and is made of scheme_chars; it is lowercased
split_scheme(url, i) ==
    IF /\ i > 1
       /\ \E n \in 1..26 : url[1] \in {Lower[n], Upper[n]}
       /\ \A k \in 1..(i - 1) : url[k] \in scheme_chars
    THEN split_netloc(lower(upto(url, i)), after(url, i))
    ELSE split_netloc(<<>>, url)

\* urlsplit(url)
urlsplit(url) == split_scheme(url, find(url, ":", 1))

\* _splitparams(url), for a url that holds a ";", which is looked for at
\* position i: after the last slash when there is one
splitparams_at(url, i) ==
    IF i = 0 THEN [url |-> url, params |-> <<>>]
    ELSE [url |-> upto(url, i), params |-> after(url, i)]

splitparams(url) ==
    splitparams_at(url, IF find(url, "/", 1) > 0 THEN find(url, ";", rfind(url, "/"))
                        ELSE find(url, ";", 1))

\* urlparse(url), from the result r of urlsplit
with_params(r) ==
    IF r.scheme \in uses_params /\ find(r.path, ";", 1) > 0
    THEN [scheme |-> r.scheme, netloc |-> r.netloc,
          path |-> splitparams(r.path).url, params |-> splitparams(r.path).params,
          query |-> r.query, fragment |-> r.fragment]
    ELSE [scheme |-> r.scheme, netloc |-> r.netloc, path |-> r.path,
          params |-> <<>>, query |-> r.query, fragment |-> r.fragment]

urlparse(url) == with_params(urlsplit(url))

\* urlunsplit, its last steps: scheme, query and fragment are put around url
with_delimiters(scheme, url, query, fragment) ==
    (IF scheme # <<>> THEN scheme \o <<":">> ELSE <<>>)
      \o url
      \o (IF query # <<>> THEN <<"?">> \o query ELSE <<>>)
      \o (IF fragment # <<>> THEN <<"#">> \o fragment ELSE <<>>)

\* urlunsplit((scheme, netloc, url, query, fragment)): two slashes and the
\* netloc are put before the url when there is a netloc, or a scheme of
\* uses_netloc and a url that does not begin with two slashes
urlunsplit(scheme, netloc, url, query, fragment) ==
    IF netloc # <<>>
         \/ (/\ scheme # <<>>
             /\ scheme \in uses_netloc
             /\ ~(Len(url) >= 2 /\ url[1] = "/" /\ url[2] = "/"))
    THEN with_delimiters(scheme,
            <<"/", "/">> \o netloc
               \o (IF url # <<>> /\ url[1] # "/" THEN <<"/">> ELSE <<>>) \o url,
            query, fragment)
    ELSE with_delimiters(scheme, url, query, fragment)

\* urlunparse((scheme, netloc, url, params, query, fragment))
urlunparse(scheme, netloc, url, params, query, fragment) ==
    urlunsplit(scheme, netloc,
               IF params # <<>> THEN url \o <<";">> \o params ELSE url,
               query, fragment)

\* the dataclass of lines 67-74, from the result r of urlparse
ParsedUrlOf(r) ==
    [scheme |-> r.scheme, domain |-> r.netloc, path |-> r.path,
     params |-> r.params, query |-> r.query, fragment |-> r.fragment]

\* parsers.parse_url(url), lines 98-111
parsers_parse_url(url) == ParsedUrlOf(urlparse(url))

\* ParsedUrl.raw, lines 76-87
ParsedUrl_raw(self) ==
    urlunparse(self.scheme, self.domain, self.path, self.params, self.query,
               self.fragment)

\* the parts that the URL strings of the model are put together from
SchemeParts == {<<>>, <<"h", "t", "t", "p", "s", ":">>, <<"H", "T", "T", "P", "S", ":">>, <<"x", ":">>}
AuthorityParts == {<<>>, <<"/", "/">>, <<"/", "/", "a", ".", "c", "o", "m">>}
PathParts == {<<>>, <<"/">>, <<"/", "p">>, <<"p">>, <<"/", "/", "p">>, <<"/", "p", ";", "x">>}
QueryParts == {<<>>, <<"?">>, <<"?", "q">>}
FragmentParts == {<<>>, <<"#">>, <<"#", "f">>}

UrlStrings ==
    {scheme \o authority \o path \o query \o fragment :
        scheme \in SchemeParts, authority \in AuthorityParts, path \in PathParts,
        query \in QueryParts, fragment \in FragmentParts}

\* the call parse_url(url), which gave out, then out.raw and its parse
round_trip(url, out) ==
    [op |-> "parse_url", url |-> url, out |-> out, raw |-> ParsedUrl_raw(out),
     again |-> parsers_parse_url(ParsedUrl_raw(out))]

\* parse_url(parse_url(url).raw) is computed; calls keeps the last call
UrlRoundTrip(url) ==
    /\ Len(calls) < MaxParserCalls
    /\ calls' = <<round_trip(url, parsers_parse_url(url))>>
    /\ UNCHANGED <<idle, acknowledged_domains, limiter, objs, shared>>

\* the start tags of a page: the tag and the value of its href attribute
Hrefs ==
    {<<"/", "a">>, <<"h", "t", "t", "p", "s", ":", "/", "/", "e", "x", "a", "m", "p", "l", "e", ".", "c", "o", "m", "/", "a">>, <<"h", "t", "t", "p", "s", ":", "/", "/", "o", "t", "h", "e", "r", ".", "c", "o", "m", "/", "b">>,
     <<"/", "a", "#", "t", "o", "p">>, <<"h", "t", "t", "p", "s", ":", "/", "/", "e", "x", "a", "m", "p", "l", "e", ".", "c", "o", "m", "/", "a", "#", "t", "o", "p">>}

StartTags == [tag : {"a"}, href : Hrefs]
               \cup {[tag |-> "link", href |-> <<"/", "a">>]}

\* HTMLAnchorsParser.handle_starttag, lines 128-134, for every start tag of
\* the text that feed is given: the href of an a tag is parsed as it stands
found_links(base, tags) ==
    {parsers_parse_url(t.href) : t \in {x \in tags : x.tag = "a"}}

\* Crawler._parse_links(base, text), crawler.py lines 124-127, for a crawler
\* with no filter
ParseLinks(base, tags) ==
    /\ filters = <<>>
    /\ Len(calls) < MaxParserCalls
    /\ calls' = <<[op |-> "_parse_links", base |-> base, tags |-> tags,
                   out |-> found_links(base, tags)]>>
    /\ UNCHANGED <<idle, acknowledged_domains, limiter, objs, shared>>

NextParsers ==
    \/ \E url \in UrlStrings : UrlRoundTrip(url)
    \/ \E tags \in SUBSET StartTags : ParseLinks(<<"h", "t", "t", "p", "s", ":", "/", "/", "e", "x", "a", "m", "p", "l", "e", ".", "c", "o", "m">>, tags)

InitParsers == Construct({{}}, {0}, {1}, {<<>>}, {{}})

SpecParsers == InitParsers /\ [][NextParsers]_vars

\* ------------------------------------------------ limiters and the clock
\* the clock counts ticks since the moment the limiter at hand measures
\* from, and stops counting at the horizon, beyond which nothing the
\* limiters compute depends on it
TicksPerSecond == 2
MaxSeconds == 2
Horizon == MaxSeconds * TicksPerSecond
MaxCallers == 2

\* amounts of tokens and of time are kept in grains, the least amount that
\* the rates (multiples of 1/2) and the ticks of the model produce
Grain == 2 * TicksPerSecond
Rat(n, d) == IF n = 0 THEN Zero ELSE <<(n * Grain) \div d, Grain>>

RatAdd(a, b) == Rat(a[1] * b[2] + b[1] * a[2], a[2] * b[2])
RatMul(a, b) == Rat(a[1] * b[1], a[2] * b[2])

\* seconds that the given number of ticks lasts
Seconds(ticks) == Rat(ticks, TicksPerSecond)

\* min(a, b) of two numbers
min(a, b) == IF RatLess(b, a) THEN Rat(b[1], b[2]) ELSE Rat(a[1], a[2])

\* TokenBucketRateLimiter._refresh_tokens, lines 150-153, time_elapsed
\* seconds after _last_refresh_time; line 154 sets the clock back to 0
refresh_tokens(self, time_elapsed) ==
    [self EXCEPT !.tokens =
        min(RatAdd(self.tokens, RatMul(time_elapsed, self.tokens_per_second)),
            self.tokens_per_second)]

\* TokenBucketRateLimiter.consume(tokens): the answer and the bucket after it
taken(self, tokens) ==
    IF RatLess(self.tokens, tokens)
    THEN [out |-> FALSE, self |-> self]
    ELSE [out |-> TRUE,
          self |-> [self EXCEPT !.tokens = RatAdd(self.tokens, <<-tokens[1], tokens[2]>>)]]

consume(self, tokens, time_elapsed) ==
    taken(refresh_tokens(self, time_elapsed), tokens)

One == <<1, 1>>

\* the configurations a robots policy with a positive delay or rate gives
PositiveConfigs ==
    [crawl_delay : {None, <<1, 1>>, <<2, 1>>}, request_rate : {None, <<1, 2>>, <<2, 1>>}]

\* a task that will await limiter.limit(), and one that is a _crawl
Caller(kind) == [kind |-> kind, pc |-> "created", sleep |-> 0, cancel |-> FALSE]

Callers == DOMAIN coros \ {0}

\* asyncio.create_task: the task runs when the event loop gets to it
CreateTask(kind) ==
    /\ running = {}
    /\ Cardinality(Callers) < MaxCallers
    /\ coros' = coros @@ (NextId :> Caller(kind))
    /\ UNCHANGED <<config, urls_seen, done, total_pages, todo, unfinished,
                   acknowledged_domains, configured, workers, running, events,
                   enqueued, stops, run_calls, unit>>

\* a tick of time passes: the clock moves on and every sleeper gets nearer
\* to its wake-up time
Tick ==
    /\ clock < Horizon \/ \E c \in Callers : coros[c].sleep > 0
    /\ clock' = IF clock < Horizon THEN clock + 1 ELSE clock
    /\ coros' = [c \in DOMAIN coros |->
                   IF c \in Callers /\ coros[c].sleep > 0
                   THEN [coros[c] EXCEPT !.sleep = @ - 1]
                   ELSE coros[c]]
    /\ UNCHANGED <<config, urls_seen, done, total_pages, todo, unfinished,
                   acknowledged_domains, configured, workers, running, events,
                   enqueued, stops, run_calls, limiter, calls, objs, shared>>

\* what the steps on a limiter leave alone
aside == <<config, urls_seen, done, total_pages, todo, unfinished,
           acknowledged_domains, configured, workers, events, enqueued, stops,
           run_calls, objs, shared>>

\* one consume(1) call from the event loop, outside any task
BucketConsume ==
    /\ running = {}
    /\ limiter' = consume(limiter, One, Seconds(clock)).self
    /\ clock' = 0
    /\ calls' = <<[op |-> "consume", out |-> consume(limiter, One, Seconds(clock)).out,
                   before |-> limiter, after |-> limiter']>>
    /\ UNCHANGED <<aside, coros, running>>

\* one configure call on the bucket
BucketConfigure(cfg) ==
    /\ running = {}
    /\ limiter' = bucket_configure(limiter, cfg).self
    /\ calls' = <<[op |-> "configure", out |-> bucket_configure(limiter, cfg).exc,
                   before |-> limiter, after |-> limiter']>>
    /\ UNCHANGED <<aside, coros, running, clock>>

\* a task starts `await limiter.limit()` on the bucket (line 172): the loop
\* of line 173 has no await, the task keeps the processor
LimitStart(c) ==
    /\ running = {}
    /\ coros[c].kind = "limit"
    /\ coros[c].pc = "created"
    /\ coros' = [coros EXCEPT ![c].pc = "consume"]
    /\ running' = {c}
    /\ UNCHANGED <<aside, limiter, calls, clock>>

\* limit, line 173: one turn of `while not self.consume(1)`
LimitPoll(c) ==
    /\ running = {c}
    /\ coros[c].pc = "consume"
    /\ limiter' = consume(limiter, One, Seconds(clock)).self
    /\ clock' = 0
    /\ IF consume(limiter, One, Seconds(clock)).out
       THEN /\ coros' = [coros EXCEPT ![c].pc = "returned"]
            /\ running' = {}
            /\ calls' = <<[op |-> "limit", out |-> TRUE,
                           before |-> refresh_tokens(limiter, Seconds(clock)),
                           after |-> limiter']>>
       ELSE UNCHANGED <<coros, running, calls>>
    /\ UNCHANGED aside

NextBucket ==
    \/ CreateTask("limit")
    \/ Tick
    \/ BucketConsume
    \/ \E cfg \in PositiveConfigs : BucketConfigure(cfg)
    \/ \E c \in Callers :
         \/ LimitStart(c)
         \/ LimitPoll(c)

\* a bucket was built with a positive rate (__init__, lines 136-143)
InitBucket ==
    /\ CrawlerInit({{}}, {0}, {1}, {<<>>}, {{}})
    /\ limiter \in {TokenBucketRateLimiter(r) : r \in {<<1, 2>>, <<1, 1>>, <<2, 1>>}}
    /\ objs = <<>>
    /\ shared = ClassAttributes
    /\ calls = <<>>

SpecBucket == InitBucket /\ [][NextBucket]_vars

\* time goes on, and a task that holds the processor takes its next step
SpecBucketLive ==
    InitBucket /\ [][NextBucket]_vars
               /\ WF_vars(Tick)
               /\ WF_vars(\E c \in Callers : LimitPoll(c))

\* ------------------------------------------- StaticRateLimiter and time
\* the ticks that asyncio.sleep(time_in_seconds) lasts
Ticks(time_in_seconds) == (time_in_seconds[1] * TicksPerSecond) \div time_in_seconds[2]

\* a task starts `await limiter.limit()` on a StaticRateLimiter (lines
\* 83-85): it sleeps for self.time, whatever the other tasks do
DelayLimit(c) ==
    /\ running = {}
    /\ coros[c].kind = "limit"
    /\ coros[c].pc = "created"
    /\ coros' = [coros EXCEPT ![c].pc = "sleep", ![c].sleep = Ticks(limiter.time)]
    /\ UNCHANGED <<aside, running, limiter, calls, clock>>

\* the sleep is over and the task sends its request, as _crawl does after
\* the limiter (crawler.py lines 104, 117-122): the clock now counts from
\* this request
DelayWake(c) ==
    /\ running = {}
    /\ coros[c].pc = "sleep"
    /\ coros[c].sleep = 0
    /\ coros' = [coros EXCEPT ![c].pc = "sent"]
    /\ calls' = <<[op |-> "request", first |-> calls = <<>>, gap |-> clock,
                   time |-> limiter.time]>>
    /\ clock' = 0
    /\ UNCHANGED <<aside, running, limiter>>

\* _crawl, line 101: self._rate_limiter.limit(url.raw) on a limiter whose
\* limit() takes no argument is a TypeError, the task ends with it
CrawlLimit(c) ==
    /\ running = {}
    /\ coros[c].kind = "crawl"
    /\ coros[c].pc = "created"
    /\ coros' = [coros EXCEPT ![c].pc = "failed"]
    /\ UNCHANGED <<aside, running, limiter, calls, clock>>

NextDelay ==
    \/ \E kind \in {"limit", "crawl"} : CreateTask(kind)
    \/ Tick
    \/ \E c \in Callers :
         \/ DelayLimit(c)
         \/ DelayWake(c)
         \/ CrawlLimit(c)

InitDelay ==
    /\ CrawlerInit({{}}, {0}, {1}, {<<>>}, {{}})
    /\ limiter \in {StaticRateLimiter(t) : t \in {<<1, 2>>, <<1, 1>>}}
    /\ objs = <<>>
    /\ shared = ClassAttributes
    /\ calls = <<>>

SpecDelay == InitDelay /\ [][NextDelay]_vars

\* =============================================================== claims
\* the URLs that were fed through _on_found_links so far
Fed == {u \in Urls : <<"url_found", u>> \in events}

\* C1: after any sequence of _on_found_links calls made one after another,
\* each of which returned, with the page limit not reached, every URL that
\* was fed is in seen and was put on the task queue exactly once.
C1_DedupExactlyOnce ==
    coros[0].pc = "returned" /\ total_pages <= limit
       => \A u \in Fed : u \in urls_seen /\ enqueued[u] = 1

CrawlTasks == {i \in Tasks : coros[i].kind = "crawl"}

\* a step in which some coroutine makes one _put_todo call
PutAttempt ==
    \E c \in DOMAIN coros :
       /\ coros[c].pc = "put"
       /\ coros'[c].put # coros[c].put

C2_NoDoubleEnqueue == \A u \in Urls : enqueued[u] <= 1

\* C4: when no request fails and every wait on the rate limiter ends, run()
\* eventually ends: the queue drains, the workers are cancelled and run()
\* returns (or, at the least, run() ends with an error).
C4_RunTerminates == <>(coros[0].pc \in {"returned", "raised"})

\* C5: run() returns only when the queue is drained: once join() has
\* returned, nothing is queued, every task that was ever enqueued was taken
\* by a worker and has completed, and at every moment each crawl task that
\* has not completed is still counted as unfinished by the queue.
C5_ReturnsOnlyWhenDrained ==
    /\ coros[0].pc \in {"joined", "returned"}
         => /\ todo = <<>>
            /\ unfinished = 0
            /\ \A c \in CrawlTasks : coros[c].pc = "done"
    /\ Cardinality({c \in CrawlTasks : coros[c].pc # "done"}) <= unfinished

\* C5 witness: run() has returned after a crawl task enqueued further tasks
C5_Witness ==
    /\ coros[0].pc = "returned"
    /\ \E c \in CrawlTasks : coros[c].new # {}
    /\ Cardinality(CrawlTasks) >= 2

\* C6: the failure of a crawl task is isolated: it never ends the worker
\* that awaits it, which acknowledges the task and goes on with the queue.
C6_FailureIsolated == \A j \in DOMAIN workers : workers[j].pc # "crashed"

\* C7: every crawl task that is over, with a result or with an error, has
\* added the raw form of its URL to done.
C7_DoneInEveryOutcome ==
    \A c \in CrawlTasks :
       coros[c].pc \in {"done", "failed"} => raw(coros[c].url) \in done

\* the crawl tasks of URLs the robots policy of their domain denies
DeniedTasks ==
    {c \in CrawlTasks : ~acknowledged_domains[coros[c].url.domain].can_fetch}

\* C8: for a URL that can_access denies no request is ever sent and no link
\* is extracted, its crawl task cannot fail, and once the task is over the
\* URL is in done and its DONE event was emitted.
C8_DeniedIsSkipped ==
    \A c \in DeniedTasks :
       /\ <<"request", coros[c].url>> \notin events
       /\ <<"response", coros[c].url>> \notin events
       /\ coros[c].pc \in {"created", "limit", "done"}
       /\ coros[c].arg = {} /\ coros[c].new = {}
       /\ coros[c].pc = "done"
            => raw(coros[c].url) \in done /\ <<"done", coros[c].url>> \in events

\* C8 witness: the crawl task of a denied URL is over
C8_Witness == \E c \in DeniedTasks : coros[c].pc = "done"

\* C9: at most num_workers crawl tasks are executing at any moment, and a
\* crawl task that is still on the queue has not started executing.
C9_BoundedByWorkers ==
    /\ Cardinality({c \in CrawlTasks : coros[c].pc # "created" /\ ~Finished(c)})
         <= num_workers
    /\ \A i \in 1..Len(todo) : coros[todo[i]].pc = "created"

\* C10: a stop() call without reset leaves done, seen and total_pages as
\* they were and leaves every worker either over or cancelled.
C10_StopKeepsResults ==
    [][Len(stops') > Len(stops) /\ ~stops'[Len(stops')]
         => /\ done' = done
            /\ urls_seen' = urls_seen
            /\ total_pages' = total_pages
            /\ \A j \in DOMAIN workers' :
                  WorkerOver(workers'[j]) \/ workers'[j].cancel]_vars

\* C10 witness: stop() without reset was called on running workers after
\* some URL was done, and the partial results are there
C10_Witness ==
    /\ stops = <<FALSE>>
    /\ done # {} /\ urls_seen # {} /\ total_pages > 0
    /\ \E j \in DOMAIN workers : workers[j].cancel /\ workers[j].pc = "await"

\* C11: when stop() is called while run() waits for the queue to drain (the
\* workers are cancelled and run() is in join()), run() eventually returns.
C11_StopEndsRun ==
    (coros[0].pc = "join" /\ \E j \in DOMAIN workers : workers[j].cancel)
       ~> (coros[0].pc = "returned")

\* C12: in a run() that follows a reset no task of the previous run is left
\* over: every task on the queue, and every task a worker holds, was
\* created by the present run, and the queue counts no other as unfinished.
C12_RerunStartsClean ==
    Len(run_calls) = 2 =>
       /\ \A i \in 1..Len(todo) : todo[i] >= run_calls[2]
       /\ \A j \in DOMAIN workers :
             workers[j].pc \in {"got", "await"} => workers[j].task >= run_calls[2]
       /\ unfinished <= Cardinality({c \in CrawlTasks : c >= run_calls[2]})

\* C13: once an _on_found_links call has returned with the page limit not
\* reached, every URL that a sitemap listed and that was new to the crawler
\* is in seen and was put on the task queue exactly once.
C13_SiteMapUrlsEnqueued ==
    coros[0].pc = "returned" /\ total_pages <= limit
       => \A c \in SubTasks :
             coros[c].pc = "done"
                => \A u \in coros[c].new : u \in urls_seen /\ enqueued[u] = 1

\* the respect calls made so far for a domain, by position in the history
RespectCalls(d) ==
    {i \in 1..Len(calls) : calls[i].op = "respect" /\ calls[i].domain = d}

\* C14: the policy stored for a domain is the one the first respect call for
\* it created, the known domains are those that were respected, and a
\* respect call for a known domain leaves the whole map unchanged.
C14_RespectIdempotent ==
    /\ [](/\ DOMAIN acknowledged_domains = {d \in Domains : RespectCalls(d) # {}}
          /\ \A d \in DOMAIN acknowledged_domains :
                \E i \in RespectCalls(d) :
                   /\ \A k \in RespectCalls(d) : i <= k
                   /\ acknowledged_domains[d] = RobotFileParser(calls[i].url))
    /\ [][/\ Len(calls') > Len(calls)
          /\ calls'[Len(calls')].op = "respect"
          /\ calls'[Len(calls')].domain \in DOMAIN acknowledged_domains
          => acknowledged_domains' = acknowledged_domains]_vars

\* C14 witness: a domain was respected twice, with two robots URLs
C14_Witness ==
    \E d \in Domains : \E i, k \in RespectCalls(d) :
       i < k /\ calls[i].url # calls[k].url

\* C15: can_access answers True, without an error, for a domain that has
\* no policy recorded.
C15_PermissiveDefault ==
    \A i \in 1..Len(calls) :
       calls[i].op = "can_access" /\ RespectCalls(calls[i].domain) = {}
          => calls[i].out = "True"

\* C16: a domain whose robots document was not loaded is acknowledged with
\* no restrictions: can_access answers True for every one of its URLs.
C16_UnloadedIsPermissive ==
    \A i \in 1..Len(calls) :
       /\ calls[i].op = "can_access"
       /\ \E k \in RespectCalls(calls[i].domain) : k < i
       => calls[i].out = "True"

RatMax(a, b) == IF RatLess(a, b) THEN b ELSE a
RatMin(a, b) == IF RatLess(b, a) THEN b ELSE a

\* the configure calls made so far, by position in the history
ConfigureCalls == {i \in 1..Len(calls) : calls[i].op = "configure"}

\* a configuration that gives a delay, and the delay it gives: the crawl
\* delay, or else seconds per request
HasDelay(c) ==
    c.crawl_delay # None \/ (c.request_rate # None /\ c.request_rate[1] > 0)
DelayOf(c) ==
    IF c.crawl_delay # None THEN c.crawl_delay
    ELSE <<c.request_rate[2], c.request_rate[1]>>

HasRate(c) ==
    \/ c.crawl_delay # None /\ RatLess(Zero, c.crawl_delay)
    \/ /\ c.crawl_delay = None /\ c.request_rate # None
       /\ c.request_rate[1] > 0 /\ c.request_rate[2] > 0
RateOf(c) ==
    IF c.crawl_delay # None THEN <<c.crawl_delay[2], c.crawl_delay[1]>>
    ELSE c.request_rate

\* C18: every configure call of a TokenBucketRateLimiter with a positive
\* crawl delay, fractional or not, or with a positive request rate, succeeds
\* and leaves tokens_per_second at the lower of the rate before and the
\* candidate rate.
C18_BucketKeepsMin ==
    limiter.kind = "bucket" =>
       \A i \in ConfigureCalls :
          HasRate(calls[i]) =>
             /\ calls[i].exc = ""
             /\ RatEq(calls[i].after.tokens_per_second,
                      RatMin(calls[i].before.tokens_per_second, RateOf(calls[i])))

\* a configuration that yields a delay (StaticRateLimiter) or a rate
\* (TokenBucketRateLimiter) that is zero or negative
NonPositive(c) ==
    IF c.before.kind = "static"
    THEN HasDelay(c) /\ ~RatLess(Zero, DelayOf(c))
    ELSE \/ c.crawl_delay # None /\ RatLess(c.crawl_delay, Zero)
         \/ /\ c.crawl_delay = None /\ c.request_rate # None
            /\ c.request_rate[2] > 0 /\ c.request_rate[1] <= 0

\* C19: a configure call that yields a non-positive delay or rate, zero
\* included, fails with InvalidConfigurationError and leaves the limiter as
\* it was.
C19_NonPositiveRejected ==
    \A i \in ConfigureCalls :
       NonPositive(calls[i]) =>
          /\ calls[i].exc = "InvalidConfigurationError"
          /\ calls[i].after = calls[i].before

\* the limit calls made so far, by position in the history
LimitCalls == {i \in 1..Len(calls) : calls[i].op = "limit"}

\* C20: after a limit call the domain of its URL has a limiter stored, the
\* one the call waited on, and two limit calls for one domain wait on the
\* same limiter.
C20_LimitStoresLimiter ==
    /\ \A i \in LimitCalls :
          /\ extract_domain(calls[i].url) \in DOMAIN calls[i].after.domain_to_limiter
          /\ calls[i].after.domain_to_limiter[extract_domain(calls[i].url)]
                = calls[i].used
    /\ \A i, k \in LimitCalls :
          extract_domain(calls[i].url) = extract_domain(calls[k].url)
             => calls[i].used = calls[k].used

\* the delay in force for a host name in a per-domain limiter: that of the
\* limiter stored for it, or of a default limiter when none is stored
DelayIn(self, domain) ==
    IF extract_domain(domain) \in DOMAIN self.domain_to_limiter
    THEN self.times[self.domain_to_limiter[extract_domain(domain)]]
    ELSE <<1, 1>>

\* C21: every configure call that carries a delay, on a PerDomainRateLimiter
\* built with the default factory, succeeds, leaves a limiter stored for the
\* domain, keeps the instance that was stored before, and leaves the delay of
\* the domain at the greater of the delay before and the delay given.
C21_ConfigureForwards ==
    \A i \in ConfigureCalls :
       (calls[i].crawl_delay # None /\ calls[i].before.factory = "partial") =>
          /\ calls[i].exc = ""
          /\ extract_domain(calls[i].url) \in DOMAIN calls[i].after.domain_to_limiter
          /\ extract_domain(calls[i].url) \in DOMAIN calls[i].before.domain_to_limiter
                => calls[i].after.domain_to_limiter[extract_domain(calls[i].url)]
                     = calls[i].before.domain_to_limiter[extract_domain(calls[i].url)]
          /\ RatEq(DelayIn(calls[i].after, calls[i].url),
                   RatMax(DelayIn(calls[i].before, calls[i].url), calls[i].crawl_delay))

\* the calls of filters that were built by the given operation
FilterCalls(op) ==
    {i \in 1..Len(calls) : calls[i].op = "filter" /\ objs[calls[i].k].op = op}

\* C22: a call of f & g on a URL returns what f returns on it and g returns
\* on it, for all filters f and g that were built.
C22_ConjunctionLaw ==
    \A i \in FilterCalls("and") :
       calls[i].out = (filter(objs[objs[calls[i].k].left].f, calls[i].url)
                       /\ filter(objs[objs[calls[i].k].right].f, calls[i].url))

\* f & g was called on a URL that f accepts and g rejects
C22_Witness ==
    \E i \in FilterCalls("and") :
       /\ filter(objs[objs[calls[i].k].left].f, calls[i].url)
       /\ ~filter(objs[objs[calls[i].k].right].f, calls[i].url)

\* C23: a call of ~f on a URL returns the negation of what f returns on it,
\* for every filter f that was built, simple or built with &.
C23_NegationLaw ==
    \A i \in FilterCalls("invert") :
       calls[i].out = ~filter(objs[objs[calls[i].k].left].f, calls[i].url)

TextKinds == {"StartsWith", "EndsWith", "Contains"}

\* text, placed in value from position k + 1 on
OccursAt(text, value, k) ==
    k + Len(text) <= Len(value) /\ \A n \in 1..Len(text) : value[k + n] = text[n]

\* the prefix, suffix or substring test of the arguments a text filter was
\* built from, on the property of a URL
TextTest(given, url) ==
    LET value == IF given.case_sensitive THEN url[given.url_prop]
                 ELSE lower(url[given.url_prop])
        text == IF given.case_sensitive THEN given.arg ELSE lower(given.arg)
    IN CASE given.kind = "StartsWith" -> OccursAt(text, value, 0)
         [] given.kind = "EndsWith" ->
               Len(text) <= Len(value) /\ OccursAt(text, value, Len(value) - Len(text))
         [] given.kind = "Contains" ->
               \E k \in 0..Len(value) : OccursAt(text, value, k)

KwargCalls ==
    {i \in 1..Len(calls) :
        calls[i].op \in {"create_from_kwarg", "Crawler.filter", "UrlFilterer"}}

\* the property names and the operators that the keys of the model are made of
KeyProps == {split(key)[1] : key \in Keys}
KeyOperators == Operators \cup {<<"f", "o", "o">>}

VariantOf(operator) ==
    CHOOSE n \in 1..Len(FilterSubclasses) :
       class_name_lower(FilterSubclasses[n]) = operator

\* C26: building a filter from a key <property>__[i]<operator> with a
\* recognized property and operator, and a value of the operator's type,
\* returns a filter of the class the operator names, which is case-sensitive
\* exactly when the key has no i.
C26_ValidKeyBuilds ==
    \A i \in KwargCalls :
       \A prop \in KeyProps, modifier \in {<<>>, <<"i">>}, operator \in Operators :
          (/\ calls[i].key = KeyOf(prop, modifier, operator)
           /\ prop \in url_valid_properties
           /\ calls[i].value.type = (IF operator = <<"i", "n">> THEN "list" ELSE "str"))
             => /\ calls[i].exc = ""
                /\ calls[i].out # None
                /\ calls[i].out.kind = FilterSubclasses[VariantOf(operator)]
                /\ calls[i].out.case_sensitive = (modifier = <<>>)

\* the calls of process
ProcessCalls == {i \in 1..Len(calls) : calls[i].op = "process"}

\* the filters that were registered through one UrlFilterer before call i
Registered(self, i) ==
    {calls[j].id : j \in {n \in 1..(i - 1) :
                            calls[n].op = "filter" /\ calls[n].who = self}}

\* C24: process(url) of a UrlFilterer returns the URL when every filter that
\* was registered through it passes on the URL (so when none was), returns
\* None otherwise, raises nothing, and leaves the filters as they were.
C24_ProcessAllPass ==
    \A i \in ProcessCalls :
       /\ calls[i].out =
            (IF \A id \in Registered(calls[i].who, i) :
                   filterers_filter(calls[i].before.objs, calls[i].before.shared,
                                    id, calls[i].url, 1) = "True"
             THEN calls[i].url ELSE None)
       /\ calls[i].after = calls[i].before

\* the result of every filter that exists, and of process of the given
\* UrlFilterer objects, on every URL, in a state of the objects
Results(heap, filterers) ==
    [filter |->
       [id \in 1..Len(heap.objs) |->
          [url \in FilterUrls |-> filterers_filter(heap.objs, heap.shared, id, url, 1)]],
     process |->
       [self \in filterers |->
          [url \in FilterUrls |-> process(self, heap.objs, heap.shared, url)]]]

\* C28: registering a filter with one UrlFilterer leaves what process of the
\* other returns as it was, and building f & g or ~f leaves the result of
\* every filter that existed as it was.
C28_IndependentState ==
    [][Len(calls') > Len(calls) =>
         LET call == calls'[Len(calls')] IN
         /\ call.op = "filter" =>
               Results(call.after, Filterers \ {call.who})
                  = Results(call.before, Filterers \ {call.who})
         /\ call.op \in {"and", "invert"} =>
               \A id \in 1..Len(call.before.objs) :
                  Results(call.after, {}).filter[id]
                     = Results(call.before, {}).filter[id]]_vars

\* the URL strings of the model that have a scheme, and after it either an
\* authority and any path, or a path that does not begin with two slashes
ValidUrlStrings ==
    {scheme \o authority \o path \o query \o fragment :
        scheme \in SchemeParts \ {<<>>},
        authority \in AuthorityParts \ {<<>>}, path \in PathParts \ {<<"p">>},
        query \in QueryParts, fragment \in FragmentParts}
    \cup {scheme \o path \o query \o fragment :
            scheme \in SchemeParts \ {<<>>},
            path \in PathParts \ {<<"/", "/", "p">>},
            query \in QueryParts, fragment \in FragmentParts}

\* C29: for every valid URL string the parse of the raw form of its parse
\* has the six components of its parse.
C29_RoundTrip ==
    \A i \in 1..Len(calls) :
       (calls[i].op = "parse_url" /\ calls[i].url \in ValidUrlStrings) =>
          calls[i].again = calls[i].out

\* what a link denotes: the href without its fragment, after the base when
\* it is a path
Resolved(base, href) ==
    LET cut == IF find(href, "#", 1) > 0 THEN upto(href, find(href, "#", 1))
               ELSE href
    IN IF cut # <<>> /\ cut[1] = "/" THEN base \o cut ELSE cut

\* C30: the links that _parse_links returns are the parsed targets of the a
\* tags of the page, resolved against the base and without fragment, one
\* for every target.
C30_LinksResolved ==
    \A i \in 1..Len(calls) :
       calls[i].op = "_parse_links" =>
          calls[i].out =
            {parsers_parse_url(Resolved(calls[i].base, t.href)) :
               t \in {x \in calls[i].tags : x.tag = "a"}}

C32_LinksFiltered ==
    [][\A c \in running \cap CrawlTasks : \A u \in Urls :
         (u \in urls_seen' \ urls_seen \/ enqueued'[u] > enqueued[u]) =>
            \A i \in 1..Len(filters) : u \in filters[i]]_vars

C32_Witness ==
    /\ Len(filters) = 2
    /\ \E u \in Urls :
          /\ raw(u) \notin start_urls
          /\ u \in urls_seen
          /\ enqueued[u] > 0
    /\ \E u \in Urls :
          /\ raw(u) \in start_urls
          /\ u \in urls_seen
          /\ \E i \in 1..Len(filters) : u \notin filters[i]

\* C33: the tokens of a bucket are never below zero and never above its
\* capacity, the current tokens_per_second.
C33_TokensWithinCapacity ==
    limiter.kind = "bucket" =>
       /\ ~RatLess(limiter.tokens, Zero)
       /\ ~RatLess(limiter.tokens_per_second, limiter.tokens)

CallerAt(c, pc) == c \in Callers /\ coros[c].pc = pc

\* C34: a limit() call on a bucket of positive rate returns in the end.
C34_LimitReturns ==
    \A c \in 1..MaxCallers : CallerAt(c, "consume") ~> CallerAt(c, "returned")

\* how deep a sitemap task is nested in the sitemap tasks that created it
RECURSIVE Depth(_)
Depth(k) ==
    IF k \notin SubTasks THEN 0 ELSE 1 + Depth(coros[k].by[1])

\* C35: the recursion over the sitemaps of a domain ends: a sitemap is read
\* again only for a URL of the domain that was not handled before, so no
\* chain of nested sitemap tasks is longer than the domain has URLs.
C35_SiteMapRecursionBounded ==
    \A k \in SubTasks :
       Depth(k) <= Cardinality({u \in Urls : u.domain = coros[k].by[2]})

\* C36: a configure call for a host name succeeds and registers the limiter
\* under that domain, and it leaves the limiter of every other domain as it
\* was.
C36_ConsistentKeys ==
    \A i \in 1..Len(calls) :
       (/\ calls[i].op = "configure"
        /\ calls[i].before.factory = "partial"
        /\ calls[i].crawl_delay # None) =>
          /\ calls[i].exc = ""
          /\ calls[i].url \in DOMAIN calls[i].after.domain_to_limiter
          /\ \A d \in DOMAIN calls[i].before.domain_to_limiter \ {calls[i].url} :
                /\ d \in DOMAIN calls[i].after.domain_to_limiter
                /\ calls[i].after.domain_to_limiter[d]
                     = calls[i].before.domain_to_limiter[d]
                /\ calls[i].after.times[calls[i].after.domain_to_limiter[d]]
                     = calls[i].before.times[calls[i].before.domain_to_limiter[d]]

\* C37: a configure call that carries neither a crawl delay nor a request
\* rate raises nothing and leaves the limiter as it was.
C37_EmptyConfigureIsNoOp ==
    \A i \in ConfigureCalls :
       (calls[i].crawl_delay = None /\ calls[i].request_rate = None) =>
          /\ calls[i].exc = ""
          /\ calls[i].after = calls[i].before

Stopped ==
    /\ stops # <<>>
    /\ coros[0].pc = "join"
    /\ \E j \in DOMAIN workers : workers[j].cancel

Requests == {e \in events : e[1] = "request"}

\* C39: once stop() was called, no request is sent and done, seen and
\* total_pages stay as they are.
C39_StopIsFinal ==
    [][Stopped => /\ Requests' = Requests
                  /\ done' = done
                  /\ urls_seen' = urls_seen
                  /\ total_pages' = total_pages]_vars

\* C40: every string in done is the raw form of a URL in seen, and done
\* holds at most total_pages URLs.
C40_DoneWithinSeen ==
    /\ done \subseteq {raw(u) : u \in urls_seen}
    /\ Cardinality(done) <= total_pages
====
